---- MODULE Spec2Model ----
(***************************************************************************)
(* File lifecycle, quota accounting and folder hierarchy of the drive      *)
(* backend (FileService, FolderService, Folder model helpers).             *)
(* Every request is a process; each step of a process is one store call   *)
(* (one await of the handler) together with the synchronous code that     *)
(* follows it up to the next await.                                        *)
(***************************************************************************)
EXTENDS Integers, Sequences, FiniteSets, TLC

\* ---------------------------------------------------------------- bounds
MaxFiles == 3
MaxOps == 3
MaxSerialOps == 5
MaxFolders == 5
MaxFolderOps == 3
MaxDeepOps == 2
MaxOwnerOps == 2
MaxPreviewOps == 3
MaxNameOps == 6
MaxDeleteOps == 2
MaxRaceOps == 2
MaxTreeOps == 3

\* ------------------------------------------------------------- constants
MAX_SIZE == 50 * 1024 * 1024

Users == {"u1", "u2"}
Procs == {"p1", "p2"}
FolderIds == 1 .. 3
FileIds == 1 .. MaxFiles

\* storageLimit values of the user documents
Limits == {1000}
\* dto.size values sent by clients (0 is the falsy "missing" value)
DeclSizes == {0, 600}
\* dto.mimeType values sent by clients
DeclMimes == {"image/png"}
\* dto.parentFolderId values sent by clients
DeclFolders == {1, 3}
\* ContentLength / ContentType values the blob store can report
BlobSizes == {0, 600, 1200, MAX_SIZE + 1}
BlobMimes == {"image/png", "text/plain"}

NoDoc == [none |-> TRUE]
\* deletedAt: null, or new Date() of a delete
NullDate == "null"
Now == "now"
\* previewKey: null
NullKey == "null"
\* the keys of generated previews that the webhook hands over
PreviewKeys == {"preview.webp"}
Absent == [absent |-> TRUE]

\* lastIndex: the lastIndex property of the one FolderService.FORBIDDEN_CHARS
\* regex object, which every request shares
VARIABLES storageUsed, storageLimit, folders, files, proc, opsStarted, serial,
          budget, lastIndex

vars == <<storageUsed, storageLimit, folders, files, proc, opsStarted, serial,
          budget, lastIndex>>

\* ---------------------------------------------------------------- helpers
RECURSIVE SumSizes(_, _)
SumSizes(ids, docs) ==
  IF ids = {} THEN 0
  ELSE LET i == CHOOSE x \in ids : TRUE
       IN docs[i].size + SumSizes(ids \ {i}, docs)

StartsWith(s, prefix) ==
  /\ Len(prefix) <= Len(s)
  /\ SubSeq(s, 1, Len(prefix)) = prefix

\* ---------------------------------------------------------------- strings
\* a string is a sequence of one-character strings
ToLower(c) ==
  CASE c = "A" -> "a" [] c = "B" -> "b" [] c = "D" -> "d" [] OTHER -> c

toLowerCase(s) == [i \in 1 .. Len(s) |-> ToLower(s[i])]

RECURSIVE trim(_)
trim(s) ==
  IF s # <<>> /\ s[1] = " " THEN trim(Tail(s))
  ELSE IF s # <<>> /\ s[Len(s)] = " " THEN trim(SubSeq(s, 1, Len(s) - 1))
  ELSE s

\* the places where sub occurs in s
Occurrences(s, sub) ==
  {i \in 1 .. (Len(s) - Len(sub) + 1) : SubSeq(s, i, i + Len(sub) - 1) = sub}

includes(s, sub) == Occurrences(s, sub) # {}

\* String.prototype.lastIndexOf, counted from 1 (0 when there is none)
lastIndexOf(s, sub) ==
  IF Occurrences(s, sub) = {} THEN 0
  ELSE CHOOSE i \in Occurrences(s, sub) : \A j \in Occurrences(s, sub) : j <= i

\* the grave accent (U+0060), which cannot be written inside a string here
GraveAccent == "grave"

\* the replacement text of String.prototype.replace: $$, $&, $' and $ with a
\* grave accent are patterns; a string pattern has no captures, so every
\* other $ is literal
RECURSIVE GetSubstitution(_, _, _, _)
GetSubstitution(replacement, matched, preceding, following) ==
  IF replacement = <<>> THEN <<>>
  ELSE IF replacement[1] = "$" /\ Len(replacement) >= 2
            /\ replacement[2] \in {"$", "&", GraveAccent, "'"}
    THEN LET rest == SubSeq(replacement, 3, Len(replacement))
             sub == CASE replacement[2] = "$" -> <<"$">>
                      [] replacement[2] = "&" -> matched
                      [] replacement[2] = GraveAccent -> preceding
                      [] OTHER -> following
         IN sub \o GetSubstitution(rest, matched, preceding, following)
  ELSE <<replacement[1]>>
         \o GetSubstitution(Tail(replacement), matched, preceding, following)

\* str.replace(pattern, replacement) with a string pattern: the first occurrence
replace(str, pattern, replacement) ==
  IF Occurrences(str, pattern) = {} THEN str
  ELSE LET i == CHOOSE k \in Occurrences(str, pattern) :
                  \A j \in Occurrences(str, pattern) : k <= j
           preceding == SubSeq(str, 1, i - 1)
           following == SubSeq(str, i + Len(pattern), Len(str))
       IN preceding
            \o GetSubstitution(replacement, pattern, preceding, following)
            \o following

\* path.split("/").filter(Boolean).length
RECURSIVE SegmentCount(_)
SegmentCount(path) ==
  IF path = <<>> THEN 0
  ELSE (IF path[1] # "/" /\ (Len(path) = 1 \/ path[2] = "/") THEN 1 ELSE 0)
         + SegmentCount(Tail(path))

\* FolderService.getFolderDepth
getFolderDepth(path) == IF path = <<"/">> THEN 0 ELSE SegmentCount(path)

\* --------------------------------------------------------- folder names
MAX_FOLDER_NAME_LENGTH == 255
MAX_FOLDER_DEPTH == 20
MAX_PATH_LENGTH == 1024

RESERVED_NAMES ==
  {<<"c", "o", "n">>, <<"p", "r", "n">>, <<"a", "u", "x">>, <<"n", "u", "l">>}
    \cup {<<"c", "o", "m", d>> : d \in {"1", "2", "3", "4", "5", "6", "7", "8", "9"}}
    \cup {<<"l", "p", "t", d>> : d \in {"1", "2", "3", "4", "5", "6", "7", "8", "9"}}

\* the printable characters of FORBIDDEN_CHARS
FORBIDDEN_CHARS == {"<", ">", ":", "\"", "|", "?", "*", "/", "\\"}

\* FORBIDDEN_CHARS.test(s) of a regex with the "g" flag whose lastIndex is
\* `from`: the search starts there; a match leaves lastIndex behind the
\* matched character, a failed search resets it to 0
Test(s, from) ==
  LET hits == {i \in (from + 1) .. Len(s) : s[i] \in FORBIDDEN_CHARS}
  IN IF hits = {} THEN [found |-> FALSE, lastIndex |-> 0]
     ELSE [found |-> TRUE,
           lastIndex |-> CHOOSE i \in hits : \A j \in hits : i <= j]

\* FolderService.validateFolderName called when the regex's lastIndex is
\* `from`: the sanitized name or the error, and the lastIndex it leaves
validateFolderName(name, from) ==
  LET trimmed == trim(name)
      test == Test(trimmed, from)
      reject(at) == [error |-> "InvalidName", name |-> <<>>, lastIndex |-> at]
  IN IF name = <<>> THEN reject(from)
     ELSE IF Len(trimmed) = 0 THEN reject(from)
     ELSE IF Len(trimmed) > MAX_FOLDER_NAME_LENGTH THEN reject(from)
     ELSE IF test.found THEN reject(test.lastIndex)
     ELSE IF includes(trimmed, <<".", ".">>) THEN reject(test.lastIndex)
     ELSE IF toLowerCase(trimmed) \in RESERVED_NAMES THEN reject(test.lastIndex)
     ELSE IF trimmed[1] = "." \/ trimmed[Len(trimmed)] = "."
       THEN reject(test.lastIndex)
     ELSE [error |-> "ok", name |-> trimmed, lastIndex |-> test.lastIndex]

\* the validator of folderSchema.name, with a regex of its own made per call
NameValidator(v) ==
  /\ Len(v) # 0
  /\ ~\E i \in 1 .. Len(v) : v[i] \in FORBIDDEN_CHARS
  /\ ~includes(v, <<".", ".">>) /\ ~includes(v, <<".", "/">>)
  /\ ~includes(v, <<".", "\\">>)
  /\ v[1] # "." /\ v[Len(v)] # "."
  /\ toLowerCase(v) \notin RESERVED_NAMES

\* (variant: the regex without its "i" flag)
NameMatchesExactly(stored, name) == stored = name

\* { name: { $regex: new RegExp(`^${escapeRegex(name)}$`, "i") } }
NameMatches(stored, name) == toLowerCase(stored) = toLowerCase(name)

\* parent.path === "/" ? `/${name}` : `${parent.path}/${name}`
ChildPath(parentPath, name) ==
  IF parentPath = <<"/">> THEN <<"/">> \o name ELSE parentPath \o <<"/">> \o name

\* Folder.methods.getDescendants: the regex ^<path>/ (or ^\/[^/] for the root),
\* evaluated for the loaded document `doc` against the stored folders
PathPattern(path, candidate) ==
  IF path = <<"/">>
    THEN Len(candidate) >= 2 /\ candidate[1] = "/" /\ candidate[2] # "/"
    ELSE StartsWith(candidate, path \o <<"/">>)

getDescendants(doc) ==
  {g \in DOMAIN folders :
     /\ folders[g].ownerId = doc.ownerId
     /\ PathPattern(doc.path, folders[g].path)
     /\ ~folders[g].isDeleted}

\* (variant: the owner is left out of the filter)
getFolderOfAnyone(u, g) ==
  IF g \in DOMAIN folders /\ ~folders[g].isDeleted THEN folders[g] ELSE NoDoc

\* FolderService.getFolder: findOne({_id, ownerId, isDeleted: false})
getFolder(u, g) ==
  IF g \in DOMAIN folders /\ folders[g].ownerId = u /\ ~folders[g].isDeleted
    THEN folders[g] ELSE NoDoc

\* (variant: the root folder is treated like any other folder)
IsRootNever(doc) == FALSE

\* folder.path === "/"
IsRoot(doc) == doc.path = <<"/">>

\* headObject(key): what the blob store may answer for a file document (a
\* document whose s3Key is not saved yet has no object to be found)
HeadResults(doc) ==
  IF ~doc.s3Key THEN {Absent}
  ELSE {Absent} \cup
       [ContentLength : BlobSizes, ContentType : BlobMimes, ownerid : Users]

\* ----------------------------------------------------------- process state
IdleProc ==
  [pc |-> "idle", op |-> "none", user |-> "u1", fileId |-> 0, fileIds |-> {},
   folderId |-> 0, cascade |-> FALSE, force |-> FALSE, size |-> 0,
   mimeType |-> "", parentFolderId |-> 0, file |-> NoDoc, folder |-> NoDoc,
   ids |-> {}, snap |-> <<>>, rejected |-> {}, folderIds |-> {}, amount |-> 0,
   contentType |-> "", result |-> "none",
   results |-> [deleted |-> 0, failed |-> 0, totalSizeReclaimed |-> 0],
   deletedFolders |-> 0, usedAtStart |-> 0, again |-> FALSE,
   name |-> <<>>, newParentId |-> 0, newParent |-> NoDoc, newPath |-> <<>>,
   newDepth |-> 0, depthIncrease |-> 0, descendants |-> {}, before |-> <<>>,
   pre |-> <<>>, previewKey |-> NullKey, chain |-> <<>>, raw |-> <<>>]

Begin(p, op, u, pc0) ==
  [IdleProc EXCEPT !.pc = pc0, !.op = op, !.user = u,
                   !.usedAtStart = storageUsed[u]]

\* the handler throws (or returns) with `res`; the request is over
Finish(p, res) ==
  proc' = [proc EXCEPT ![p].pc = "idle", ![p].result = res]

\* a request arrives and takes the first free connection: at most budget.ops
\* requests, over two connections or, when requests are served one at a time,
\* over one (budget.folders: the most folder documents there will be;
\* budget.names: the folder names that clients send)
CanStart(p) ==
  /\ proc[p].pc = "idle"
  /\ p = "p1" \/ proc["p1"].pc # "idle"
  /\ serial => p = "p1"
  /\ opsStarted < budget.ops


\* --------------------------------------------------- pure parts of handlers
\* (variant: the check forgets what is already used)
QuotaIgnoresUsed(used, size, limit) == size > limit

\* createUploadIntent: dbUser.storageUsed + size > dbUser.storageLimit
QuotaExceeded(used, size, limit) == used + size > limit

\* (variant: a plain $inc without the filter)
GuardSkipped(used, amount) == TRUE

\* the filter { storageUsed: { $gte: amount } } of the guarded decrement
GuardHolds(used, amount) == used >= amount

\* (variant: the status of the file is not looked at)
ReclaimAnyStatus(doc) == doc.size

\* deleteFile: file.status === "active" ? file.size : 0
StorageToReclaim(doc) == IF doc.status = "active" THEN doc.size ELSE 0

\* confirmUpload: the checks on the head object, in the order of the code
ConfirmCheck(user, doc, head) ==
  IF head = Absent THEN "NotFoundInStorage"
  ELSE IF head.ownerid # user THEN "OwnershipMismatch"
  ELSE IF head.ContentLength <= 0 THEN "EmptyUpload"
  ELSE IF head.ContentLength > MAX_SIZE THEN "TooLarge"
  ELSE IF head.ContentType # doc.mimeType THEN "MimeMismatch"
  ELSE "ok"

\* (variant: the size the client declared is counted)
IncrementDeclared(doc, actualSize) == doc.size

\* confirmUpload: the amount of the $inc on storageUsed
ConfirmIncrement(doc, actualSize) == actualSize

\* file.save() after confirmUpload's assignments: the modified paths are written
SaveConfirmed(stored, loaded, actualSize, contentType) ==
  [stored EXCEPT
     !.size = IF actualSize # loaded.size THEN actualSize ELSE @,
     !.mimeType = IF contentType # loaded.mimeType THEN contentType ELSE @,
     !.status = "active"]

\* file.save() after isDeleted = true
SaveDeleted(stored) == [stored EXCEPT !.isDeleted = TRUE]

\* batchDeleteFiles: sum of file.size over the loaded active files
ActiveIn(ids, docs) == {i \in ids : docs[i].status = "active"}

TotalSizeReclaimed(ids, docs) == SumSizes(ActiveIn(ids, docs), docs)

\* (variant: rejected saves of pending files are rolled back too)
RollbackAnyStatus(failed, docs) == SumSizes(failed, docs)

\* batchDeleteFiles: size of the rejected saves of active files
RollbackAmount(failed, docs) == SumSizes(ActiveIn(failed, docs), docs)

Upd(p, r) == proc' = [proc EXCEPT ![p] = r]

\* ------------------------------------------------------ createUploadIntent
PendingCreates == Cardinality({q \in Procs : proc[q].pc \in {"ci_folder", "ci_create"}})

createUploadIntent(p) ==
  /\ CanStart(p)
  /\ Len(files) + PendingCreates < MaxFiles
  /\ \E u \in Users, size \in DeclSizes, mime \in DeclMimes, g \in DeclFolders :
       LET b == [Begin(p, "createUploadIntent", u, "ci_folder") EXCEPT
                   !.size = size, !.mimeType = mime, !.parentFolderId = g]
       IN IF size = 0
            THEN Upd(p, [b EXCEPT !.pc = "idle", !.result = "MissingFields"])
          ELSE IF QuotaExceeded(storageUsed[u], size, storageLimit[u])
            THEN Upd(p, [b EXCEPT !.pc = "idle", !.result = "QuotaExceeded"])
          ELSE Upd(p, b)
  /\ opsStarted' = opsStarted + 1
  /\ UNCHANGED <<storageUsed, storageLimit, folders, files, serial, budget, lastIndex>>

ci_folder(p) ==
  /\ proc[p].pc = "ci_folder"
  /\ LET g == proc[p].parentFolderId
     IN IF folders[g].ownerId = proc[p].user /\ ~folders[g].isDeleted
          THEN Upd(p, [proc[p] EXCEPT !.pc = "ci_create"])
          ELSE Finish(p, "InvalidFolder")
  /\ UNCHANGED <<storageUsed, storageLimit, folders, files, opsStarted, serial, budget, lastIndex>>

\* FileService.isPreviewSupported
isPreviewSupported(mimeType) ==
  mimeType \in {"image/jpeg", "image/jpg", "image/png", "image/webp",
                "image/heic", "image/heif", "image/tiff", "image/gif",
                "image/avif", "video/mp4", "video/mpeg", "video/quicktime",
                "video/x-msvideo", "video/webm", "video/x-matroska",
                "application/pdf"}

NewFile(p) ==
  [ownerId |-> proc[p].user, parentFolderId |-> proc[p].parentFolderId,
   size |-> proc[p].size, mimeType |-> proc[p].mimeType, status |-> "pending",
   isDeleted |-> FALSE, s3Key |-> FALSE, hasPreview |-> FALSE,
   previewStatus |-> IF isPreviewSupported(proc[p].mimeType)
                       THEN "processing" ELSE "none",
   previewKey |-> NullKey]

\* File.create: the unique index on s3Key admits one document without a key
ci_create(p) ==
  /\ proc[p].pc = "ci_create"
  /\ IF \E i \in 1 .. Len(files) : ~files[i].s3Key
       THEN /\ Finish(p, "DuplicateKey")
            /\ UNCHANGED files
       ELSE /\ files' = Append(files, NewFile(p))
            /\ Upd(p, [proc[p] EXCEPT !.pc = "ci_save", !.fileId = Len(files) + 1])
  /\ UNCHANGED <<storageUsed, storageLimit, folders, opsStarted, serial, budget, lastIndex>>

ci_save(p) ==
  /\ proc[p].pc = "ci_save"
  /\ files' = [files EXCEPT ![proc[p].fileId].s3Key = TRUE]
  /\ Finish(p, "ok")
  /\ UNCHANGED <<storageUsed, storageLimit, folders, opsStarted, serial, budget, lastIndex>>

\* ----------------------------------------------------------- confirmUpload
\* (variant: the status is left out of the filter)
ConfirmFilterAnyStatus(doc, u) == doc.ownerId = u

\* File.findOne({_id, ownerId, status: "pending"})
ConfirmFilter(doc, u) == doc.ownerId = u /\ doc.status = "pending"

confirmUpload(p) ==
  /\ CanStart(p)
  /\ \E u \in Users, f \in FileIds :
       LET b == [Begin(p, "confirmUpload", u, "cu_head") EXCEPT !.fileId = f]
       IN IF f <= Len(files) /\ ConfirmFilter(files[f], u)
            THEN Upd(p, [b EXCEPT !.file = files[f]])
            ELSE Upd(p, [b EXCEPT !.pc = "idle",
                                  !.result = "InvalidOrAlreadyConfirmed"])
  /\ opsStarted' = opsStarted + 1
  /\ UNCHANGED <<storageUsed, storageLimit, folders, files, serial, budget, lastIndex>>

\* (variant: the document is saved before the MIME check)
cu_head_saves_first(p) ==
  /\ proc[p].pc = "cu_head"
  /\ \E head \in HeadResults(proc[p].file) :
       LET r == ConfirmCheck(proc[p].user, proc[p].file, head)
       IN IF r = "ok"
            THEN /\ Upd(p, [proc[p] EXCEPT !.pc = "cu_save",
                                            !.amount = head.ContentLength,
                                            !.contentType = head.ContentType])
                 /\ UNCHANGED files
          ELSE IF r = "MimeMismatch"
            THEN /\ files' = [files EXCEPT ![proc[p].fileId] =
                                SaveConfirmed(@, proc[p].file, head.ContentLength,
                                              head.ContentType)]
                 /\ Finish(p, r)
          ELSE /\ Finish(p, r)
               /\ UNCHANGED files
  /\ UNCHANGED <<storageUsed, storageLimit, folders, opsStarted, serial, budget, lastIndex>>

cu_head(p) ==
  /\ proc[p].pc = "cu_head"
  /\ \E head \in HeadResults(proc[p].file) :
       LET r == ConfirmCheck(proc[p].user, proc[p].file, head)
       IN IF r = "ok"
            THEN Upd(p, [proc[p] EXCEPT !.pc = "cu_save",
                                         !.amount = head.ContentLength,
                                         !.contentType = head.ContentType])
            ELSE Finish(p, r)
  /\ UNCHANGED <<storageUsed, storageLimit, folders, files, opsStarted, serial, budget, lastIndex>>

cu_save(p) ==
  /\ proc[p].pc = "cu_save"
  /\ files' = [files EXCEPT ![proc[p].fileId] =
                 SaveConfirmed(@, proc[p].file, proc[p].amount, proc[p].contentType)]
  /\ Upd(p, [proc[p] EXCEPT !.pc = "cu_inc"])
  /\ UNCHANGED <<storageUsed, storageLimit, folders, opsStarted, serial, budget, lastIndex>>

cu_inc(p) ==
  /\ proc[p].pc = "cu_inc"
  /\ storageUsed' = [storageUsed EXCEPT ![proc[p].user] =
                       @ + ConfirmIncrement(proc[p].file, proc[p].amount)]
  /\ Finish(p, "ok")
  /\ UNCHANGED <<storageLimit, folders, files, opsStarted, serial, budget, lastIndex>>

\* -------------------------------------------------------------- deleteFile
deleteFile(p) ==
  /\ CanStart(p)
  /\ \E u \in Users, f \in FileIds :
       LET b == [Begin(p, "deleteFile", u, "df_save") EXCEPT
                   !.fileId = f,
                   !.again = /\ proc[p].op = "deleteFile" /\ proc[p].user = u
                             /\ proc[p].fileId = f /\ proc[p].result = "ok"]
       IN IF f <= Len(files) /\ files[f].ownerId = u /\ ~files[f].isDeleted
            THEN LET amt == StorageToReclaim(files[f])
                 IN Upd(p, [b EXCEPT !.file = files[f], !.amount = amt,
                                     !.pc = IF amt > 0 THEN "df_dec" ELSE "df_save"])
            ELSE Upd(p, [b EXCEPT !.pc = "idle", !.result = "NotFound"])
  /\ opsStarted' = opsStarted + 1
  /\ UNCHANGED <<storageUsed, storageLimit, folders, files, serial, budget, lastIndex>>

\* (variant: the new value is computed from the value the request read at its
\* start, and written back)
df_dec_read_then_write(p) ==
  /\ proc[p].pc = "df_dec"
  /\ LET u == proc[p].user
     IN IF GuardHolds(proc[p].usedAtStart, proc[p].amount)
          THEN /\ storageUsed' = [storageUsed EXCEPT ![u] =
                                    proc[p].usedAtStart - proc[p].amount]
               /\ Upd(p, [proc[p] EXCEPT !.pc = "df_save"])
          ELSE /\ Finish(p, "QuotaInconsistency")
               /\ UNCHANGED storageUsed
  /\ UNCHANGED <<storageLimit, folders, files, opsStarted, serial, budget, lastIndex>>

\* (variant: the result of the update is not looked at)
df_dec_unchecked(p) ==
  /\ proc[p].pc = "df_dec"
  /\ LET u == proc[p].user
     IN storageUsed' = [storageUsed EXCEPT ![u] =
                          IF GuardHolds(@, proc[p].amount)
                            THEN @ - proc[p].amount ELSE @]
  /\ Upd(p, [proc[p] EXCEPT !.pc = "df_save"])
  /\ UNCHANGED <<storageLimit, folders, files, opsStarted, serial, budget, lastIndex>>

df_dec(p) ==
  /\ proc[p].pc = "df_dec"
  /\ LET u == proc[p].user
     IN IF GuardHolds(storageUsed[u], proc[p].amount)
          THEN /\ storageUsed' = [storageUsed EXCEPT ![u] = @ - proc[p].amount]
               /\ Upd(p, [proc[p] EXCEPT !.pc = "df_save"])
          ELSE /\ Finish(p, "QuotaInconsistency")
               /\ UNCHANGED storageUsed
  /\ UNCHANGED <<storageLimit, folders, files, opsStarted, serial, budget, lastIndex>>

df_save(p) ==
  /\ proc[p].pc = "df_save"
  /\ files' = [files EXCEPT ![proc[p].fileId] = SaveDeleted(@)]
  /\ Finish(p, "ok")
  /\ UNCHANGED <<storageUsed, storageLimit, folders, opsStarted, serial, budget, lastIndex>>

\* -------------------------------------------------------- batchDeleteFiles
batchDeleteFiles(p) ==
  /\ CanStart(p)
  /\ \E u \in Users, fs \in SUBSET FileIds :
       LET b == [Begin(p, "batchDeleteFiles", u, "bd_save") EXCEPT !.fileIds = fs]
           found == {f \in fs : f <= Len(files) /\ files[f].ownerId = u
                                 /\ ~files[f].isDeleted}
           total == TotalSizeReclaimed(found, files)
       IN IF fs = {}
            THEN Upd(p, [b EXCEPT !.pc = "idle", !.result = "FileIdsRequired"])
          ELSE IF found = {}
            THEN Upd(p, [b EXCEPT !.pc = "idle", !.result = "NoValidFiles"])
          ELSE Upd(p, [b EXCEPT !.ids = found, !.snap = files,
                                !.results.totalSizeReclaimed = total,
                                !.pc = IF total > 0 THEN "bd_dec" ELSE "bd_save"])
  /\ opsStarted' = opsStarted + 1
  /\ UNCHANGED <<storageUsed, storageLimit, folders, files, serial, budget, lastIndex>>

bd_dec(p) ==
  /\ proc[p].pc = "bd_dec"
  /\ LET u == proc[p].user
         total == proc[p].results.totalSizeReclaimed
     IN IF GuardHolds(storageUsed[u], total)
          THEN /\ storageUsed' = [storageUsed EXCEPT ![u] = @ - total]
               /\ Upd(p, [proc[p] EXCEPT !.pc = "bd_save"])
          ELSE /\ Finish(p, "QuotaInconsistency")
               /\ UNCHANGED storageUsed
  /\ UNCHANGED <<storageLimit, folders, files, opsStarted, serial, budget, lastIndex>>

\* Promise.allSettled over the saves: any of them may be rejected by the store
bd_save(p) ==
  /\ proc[p].pc = "bd_save"
  /\ \E failed \in SUBSET proc[p].ids :
       LET ok == proc[p].ids \ failed
           rollback == RollbackAmount(failed, proc[p].snap)
           counted == [proc[p] EXCEPT !.results.deleted = Cardinality(ok),
                                      !.results.failed = Cardinality(failed),
                                      !.rejected = failed]
       IN /\ files' = [f \in 1 .. Len(files) |->
                         IF f \in ok THEN SaveDeleted(files[f]) ELSE files[f]]
          /\ IF Cardinality(failed) > 0 /\ rollback > 0
               THEN Upd(p, [counted EXCEPT !.pc = "bd_rollback", !.amount = rollback])
               ELSE Upd(p, [counted EXCEPT !.pc = "idle", !.result = "ok"])
  /\ UNCHANGED <<storageUsed, storageLimit, folders, opsStarted, serial, budget, lastIndex>>

bd_rollback(p) ==
  /\ proc[p].pc = "bd_rollback"
  /\ storageUsed' = [storageUsed EXCEPT ![proc[p].user] = @ + proc[p].amount]
  /\ Upd(p, [proc[p] EXCEPT !.pc = "idle", !.result = "ok",
                            !.results.totalSizeReclaimed = @ - proc[p].amount])
  /\ UNCHANGED <<storageLimit, folders, files, opsStarted, serial, budget, lastIndex>>


\* ------------------------------------------------------------ deleteFolder
\* the step after the root and force checks
AfterChecks(cascade) == IF cascade THEN "fo_desc" ELSE "fo_single"

deleteFolder(p) ==
  /\ CanStart(p)
  /\ \E u \in Users, g \in DOMAIN folders, cascade \in BOOLEAN, force \in BOOLEAN :
       LET b == [Begin(p, "deleteFolder", u, "fo_can1") EXCEPT
                   !.folderId = g, !.cascade = cascade, !.force = force]
       IN IF getFolder(u, g) = NoDoc
            THEN Upd(p, [b EXCEPT !.pc = "idle", !.result = "NotFound"])
          ELSE IF IsRoot(folders[g])
            THEN Upd(p, [b EXCEPT !.pc = "idle", !.result = "Forbidden"])
          ELSE Upd(p, [b EXCEPT !.folder = folders[g],
                                !.pc = IF ~force THEN "fo_can1"
                                       ELSE AfterChecks(cascade)])
  /\ opsStarted' = opsStarted + 1
  /\ UNCHANGED <<storageUsed, storageLimit, folders, files, serial, budget, lastIndex>>

\* Folder.methods.canBeDeleted: getDescendants, then countDocuments
fo_can1(p) ==
  /\ proc[p].pc = "fo_can1"
  /\ Upd(p, [proc[p] EXCEPT !.pc = "fo_can2",
               !.folderIds = {proc[p].folderId} \cup getDescendants(proc[p].folder)])
  /\ UNCHANGED <<storageUsed, storageLimit, folders, files, opsStarted, serial, budget, lastIndex>>

fo_can2(p) ==
  /\ proc[p].pc = "fo_can2"
  /\ LET fileCount == Cardinality({f \in 1 .. Len(files) :
                         /\ files[f].parentFolderId \in proc[p].folderIds
                         /\ ~files[f].isDeleted})
     IN IF fileCount = 0
          THEN Upd(p, [proc[p] EXCEPT !.pc = AfterChecks(proc[p].cascade),
                                       !.folderIds = {}])
          ELSE Finish(p, "NotEmpty")
  /\ UNCHANGED <<storageUsed, storageLimit, folders, files, opsStarted, serial, budget, lastIndex>>

fo_desc(p) ==
  /\ proc[p].pc = "fo_desc"
  /\ Upd(p, [proc[p] EXCEPT !.pc = "fo_markFolders",
               !.folderIds = {proc[p].folderId} \cup getDescendants(proc[p].folder)])
  /\ UNCHANGED <<storageUsed, storageLimit, folders, files, opsStarted, serial, budget, lastIndex>>

\* Folder.updateMany({_id: {$in: deletedFolderIds}}, {$set: {isDeleted: true}})
fo_markFolders(p) ==
  /\ proc[p].pc = "fo_markFolders"
  /\ folders' = [g \in DOMAIN folders |->
                   IF g \in proc[p].folderIds
                     THEN [folders[g] EXCEPT !.isDeleted = TRUE, !.deletedAt = Now]
                     ELSE folders[g]]
  /\ Upd(p, [proc[p] EXCEPT !.pc = "fo_find"])
  /\ UNCHANGED <<storageUsed, storageLimit, files, opsStarted, serial, budget, lastIndex>>

\* File.find({parentFolderId: {$in: ...}, isDeleted: false, status: "active"})
fo_find(p) ==
  /\ proc[p].pc = "fo_find"
  /\ LET found == {f \in 1 .. Len(files) :
                     /\ files[f].parentFolderId \in proc[p].folderIds
                     /\ ~files[f].isDeleted
                     /\ files[f].status = "active"}
     IN IF found # {}
          THEN Upd(p, [proc[p] EXCEPT !.pc = "fo_markFiles", !.ids = found,
                                       !.amount = SumSizes(found, files)])
          ELSE Upd(p, [proc[p] EXCEPT !.pc = "fo_count"])
  /\ UNCHANGED <<storageUsed, storageLimit, folders, files, opsStarted, serial, budget, lastIndex>>

fo_markFiles(p) ==
  /\ proc[p].pc = "fo_markFiles"
  /\ files' = [f \in 1 .. Len(files) |->
                 IF f \in proc[p].ids THEN SaveDeleted(files[f]) ELSE files[f]]
  /\ Upd(p, [proc[p] EXCEPT !.pc = IF proc[p].amount > 0 THEN "fo_dec"
                                    ELSE "fo_count"])
  /\ UNCHANGED <<storageUsed, storageLimit, folders, opsStarted, serial, budget, lastIndex>>

\* the result of this findOneAndUpdate is not looked at
fo_dec(p) ==
  /\ proc[p].pc = "fo_dec"
  /\ LET u == proc[p].user
     IN storageUsed' = [storageUsed EXCEPT ![u] =
                          IF GuardHolds(@, proc[p].amount)
                            THEN @ - proc[p].amount ELSE @]
  /\ Upd(p, [proc[p] EXCEPT !.pc = "fo_count"])
  /\ UNCHANGED <<storageLimit, folders, files, opsStarted, serial, budget, lastIndex>>

fo_single(p) ==
  /\ proc[p].pc = "fo_single"
  /\ folders' = [folders EXCEPT ![proc[p].folderId].isDeleted = TRUE,
                                ![proc[p].folderId].deletedAt = Now]
  /\ Upd(p, [proc[p] EXCEPT !.pc = "fo_count", !.folderIds = {proc[p].folderId}])
  /\ UNCHANGED <<storageUsed, storageLimit, files, opsStarted, serial, budget, lastIndex>>

fo_count(p) ==
  /\ proc[p].pc = "fo_count"
  /\ LET parent == proc[p].folder.parentFolderId
     IN folders' = IF parent # 0
                     THEN [folders EXCEPT ![parent].folderCount = @ - 1]
                     ELSE folders
  /\ Upd(p, [proc[p] EXCEPT !.pc = "idle", !.result = "ok",
                            !.deletedFolders = Cardinality(proc[p].folderIds)])
  /\ UNCHANGED <<storageUsed, storageLimit, files, opsStarted, serial, budget, lastIndex>>

\* ------------------------------------------------------- folder requests
\* dto.name / newName values sent by clients
NameInputs == {<<"A">>, <<"b", " ">>, <<"$", "'">>, <<".">>}

\* Folder.findOne({parentFolderId, name: /^name$/i, isDeleted: false,
\* _id: {$ne: self}}): the documents that match (self = 0: no $ne clause)
Siblings(parentId, name, self) ==
  {g \in DOMAIN folders :
     /\ folders[g].parentFolderId = parentId
     /\ NameMatches(folders[g].name, name)
     /\ ~folders[g].isDeleted
     /\ g # self}

\* the index unique_folder_name_per_parent (partial: isDeleted = false) admits
\* document `doc` at id `self`
UniqueIndexAdmits(doc, self) ==
  doc.isDeleted \/
    ~\E g \in DOMAIN folders :
       /\ g # self
       /\ ~folders[g].isDeleted
       /\ folders[g].parentFolderId = doc.parentFolderId
       /\ folders[g].ownerId = doc.ownerId
       /\ folders[g].name = doc.name

NewFolder(u, name, parentId, path, depth) ==
  [ownerId |-> u, name |-> name, parentFolderId |-> parentId, path |-> path,
   depth |-> depth, isDeleted |-> FALSE, deletedAt |-> NullDate,
   folderCount |-> 0]

\* (variant: the owner is left out of the query)
RootsOfAnyone(u) ==
  {g \in DOMAIN folders : folders[g].path = <<"/">> /\ ~folders[g].isDeleted}

\* Folder.findOne({ownerId, path: "/", isDeleted: false})
Roots(u) ==
  {g \in DOMAIN folders :
     folders[g].ownerId = u /\ folders[g].path = <<"/">> /\ ~folders[g].isDeleted}

\* -------------------------------------------------------- ensureRootFolder
ensureRootFolder(p) ==
  /\ CanStart(p)
  /\ \E u \in Users :
       LET b == [Begin(p, "ensureRootFolder", u, "er_create") EXCEPT
                   !.again = /\ proc[p].op = "ensureRootFolder"
                             /\ proc[p].user = u /\ proc[p].result = "ok"]
       IN IF Roots(u) # {}
            THEN \E home \in Roots(u) :
                   Upd(p, [b EXCEPT !.pc = "idle", !.result = "ok",
                                    !.folderId = home, !.folder = folders[home]])
            ELSE /\ Len(folders) < budget.folders
                 /\ Upd(p, b)
  /\ opsStarted' = opsStarted + 1
  /\ UNCHANGED <<storageUsed, storageLimit, folders, files, serial, budget, lastIndex>>

er_create(p) ==
  /\ proc[p].pc = "er_create"
  /\ LET doc == NewFolder(proc[p].user, <<"H", "o", "m", "e">>, 0, <<"/">>, 0)
     IN IF UniqueIndexAdmits(doc, 0)
          THEN /\ folders' = Append(folders, doc)
               /\ Upd(p, [proc[p] EXCEPT !.pc = "idle", !.result = "ok",
                                         !.folderId = Len(folders) + 1,
                                         !.folder = doc])
          ELSE /\ Finish(p, "DuplicateKey")
               /\ UNCHANGED folders
  /\ UNCHANGED <<storageUsed, storageLimit, files, opsStarted, serial, budget, lastIndex>>

\* --------------------------------------------------------- createNewFolder
\* (variant: one level more is let through)
DepthLimitPassed(parent) == parent.depth > MAX_FOLDER_DEPTH

\* parent.depth >= this.MAX_FOLDER_DEPTH
DepthLimitReached(parent) == parent.depth >= MAX_FOLDER_DEPTH

\* the validators of folderSchema on name length, path length and depth
SchemaAdmits(doc) ==
  /\ Len(doc.name) <= 255
  /\ Len(doc.path) <= 1024
  /\ doc.depth >= 0 /\ doc.depth <= 20

createNewFolder(p) ==
  /\ CanStart(p)
  /\ Len(folders) < budget.folders
  /\ \E u \in Users, raw \in budget.names, parentId \in DOMAIN folders :
       LET v == validateFolderName(raw, lastIndex)
           b == [Begin(p, "createNewFolder", u, "cf_existing") EXCEPT
                   !.newParentId = parentId, !.name = v.name]
           parent == getFolder(u, parentId)
           fail(e) == Upd(p, [b EXCEPT !.pc = "idle", !.result = e])
       IN /\ lastIndex' = v.lastIndex
          /\ IF v.error # "ok" THEN fail(v.error)
             ELSE IF parent = NoDoc THEN fail("NotFound")
             ELSE IF DepthLimitReached(parent) THEN fail("DepthExceeded")
             ELSE IF Len(ChildPath(parent.path, v.name)) > MAX_PATH_LENGTH
               THEN fail("PathTooLong")
             ELSE Upd(p, [b EXCEPT !.newParent = parent,
                                   !.newPath = ChildPath(parent.path, v.name),
                                   !.newDepth = parent.depth + 1])
  /\ opsStarted' = opsStarted + 1
  /\ UNCHANGED <<storageUsed, storageLimit, folders, files, serial, budget>>

cf_existing(p) ==
  /\ proc[p].pc = "cf_existing"
  /\ IF Siblings(proc[p].newParentId, proc[p].name, 0) # {}
       THEN Finish(p, "Duplicate")
       ELSE Upd(p, [proc[p] EXCEPT !.pc = "cf_create"])
  /\ UNCHANGED <<storageUsed, storageLimit, folders, files, opsStarted, serial, budget, lastIndex>>

cf_create(p) ==
  /\ proc[p].pc = "cf_create"
  /\ LET doc == NewFolder(proc[p].user, proc[p].name, proc[p].newParentId,
                          proc[p].newPath, proc[p].newDepth)
     IN IF ~SchemaAdmits(doc) \/ ~NameValidator(doc.name)
          THEN /\ Finish(p, "ValidationError")
               /\ UNCHANGED folders
        ELSE IF UniqueIndexAdmits(doc, 0)
          THEN /\ folders' = Append(folders, doc)
               /\ Upd(p, [proc[p] EXCEPT !.pc = "cf_count",
                                         !.folderId = Len(folders) + 1])
          ELSE /\ Finish(p, "Duplicate")
               /\ UNCHANGED folders
  /\ UNCHANGED <<storageUsed, storageLimit, files, opsStarted, serial, budget, lastIndex>>

cf_count(p) ==
  /\ proc[p].pc = "cf_count"
  /\ folders' = [folders EXCEPT ![proc[p].newParentId].folderCount = @ + 1]
  /\ Finish(p, "ok")
  /\ UNCHANGED <<storageUsed, storageLimit, files, opsStarted, serial, budget, lastIndex>>

\* ----------------------------------------------------------- getFolderPath
\* path.split("/").filter(Boolean)
RECURSIVE SplitParts(_, _, _)
SplitParts(s, i, part) ==
  LET done == IF part = <<>> THEN <<>> ELSE <<part>>
  IN IF i > Len(s) THEN done
     ELSE IF s[i] = "/" THEN done \o SplitParts(s, i + 1, <<>>)
     ELSE SplitParts(s, i + 1, Append(part, s[i]))

\* currentPath after i rounds of currentPath += "/" + pathParts[i]
RECURSIVE CurrentPath(_, _)
CurrentPath(pathParts, i) ==
  IF i = 0 THEN <<>>
  ELSE CurrentPath(pathParts, i - 1) \o <<"/">> \o pathParts[i]

\* the ancestorPaths of folderSchema.methods.getAncestors
AncestorPaths(path) ==
  LET pathParts == SplitParts(path, 1, <<>>)
      paths == {CurrentPath(pathParts, i) : i \in 1 .. (Len(pathParts) - 1)}
  IN IF paths = {} THEN {<<"/">>} ELSE paths

\* find({ownerId, path: {$in: ancestorPaths}, isDeleted: false})
getAncestors(doc) ==
  IF doc.path = <<"/">> THEN {}
  ELSE {g \in DOMAIN folders :
          /\ folders[g].ownerId = doc.ownerId
          /\ folders[g].path \in AncestorPaths(doc.path)
          /\ ~folders[g].isDeleted}

\* .sort({depth: 1}): the orders in which the store may return the ids
SortedByDepth(ids) ==
  {s \in [1 .. Cardinality(ids) -> ids] :
     /\ \A i, j \in DOMAIN s : i # j => s[i] # s[j]
     /\ \A i, j \in DOMAIN s : i < j => folders[s[i]].depth <= folders[s[j]].depth}

getFolderPath(p) ==
  /\ CanStart(p)
  /\ \E u \in Users, g \in DOMAIN folders :
       LET b == [Begin(p, "getFolderPath", u, "gp_ancestors") EXCEPT !.folderId = g]
           folder == getFolder(u, g)
       IN IF folder = NoDoc
            THEN Upd(p, [b EXCEPT !.pc = "idle", !.result = "NotFound"])
            ELSE Upd(p, [b EXCEPT !.folder = folder])
  /\ opsStarted' = opsStarted + 1
  /\ UNCHANGED <<storageUsed, storageLimit, folders, files, serial, budget, lastIndex>>

\* return [...ancestors, folder]
gp_ancestors(p) ==
  /\ proc[p].pc = "gp_ancestors"
  /\ \E ancestors \in SortedByDepth(getAncestors(proc[p].folder)) :
       Upd(p, [proc[p] EXCEPT !.pc = "idle", !.result = "ok",
                              !.chain = ancestors \o <<proc[p].folderId>>])
  /\ UNCHANGED <<storageUsed, storageLimit, folders, files, opsStarted, serial, budget, lastIndex>>

\* ------------------------------------------------------------ renameFolder
\* folder.path.substring(0, folder.path.lastIndexOf("/")), then the new path
RenamedPath(path, name) ==
  LET parentPath == SubSeq(path, 1, lastIndexOf(path, <<"/">>) - 1)
  IN IF parentPath = <<>> THEN <<"/">> \o name ELSE parentPath \o <<"/">> \o name

\* (variant: the names are compared as they are)
IsSameNameExactly(current, sanitizedName) == current = sanitizedName

\* folder.name.toLowerCase() === sanitizedName.toLowerCase()
IsSameName(current, sanitizedName) ==
  toLowerCase(current) = toLowerCase(sanitizedName)

renameFolder(p) ==
  /\ CanStart(p)
  /\ \E u \in Users, g \in DOMAIN folders, raw \in budget.names :
       LET b == [Begin(p, "renameFolder", u, "rn_existing") EXCEPT
                   !.folderId = g, !.pre = folders]
           folder == getFolder(u, g)
           v == validateFolderName(raw, lastIndex)
           fail(e) == Upd(p, [b EXCEPT !.pc = "idle", !.result = e])
       IN /\ lastIndex' = IF folder = NoDoc \/ IsRoot(folder)
                             THEN lastIndex ELSE v.lastIndex
          /\ IF folder = NoDoc THEN fail("NotFound")
             ELSE IF IsRoot(folder) THEN fail("Forbidden")
             ELSE IF v.error # "ok" THEN fail(v.error)
             ELSE IF IsSameName(folder.name, v.name)
               THEN Upd(p, [b EXCEPT !.pc = "idle", !.result = "ok",
                                     !.folder = folder, !.name = v.name])
             ELSE Upd(p, [b EXCEPT !.folder = folder, !.name = v.name])
  /\ opsStarted' = opsStarted + 1
  /\ UNCHANGED <<storageUsed, storageLimit, folders, files, serial, budget>>

rn_existing(p) ==
  /\ proc[p].pc = "rn_existing"
  /\ LET newPath == RenamedPath(proc[p].folder.path, proc[p].name)
     IN IF Siblings(proc[p].folder.parentFolderId, proc[p].name,
                    proc[p].folderId) # {}
          THEN Finish(p, "Duplicate")
        ELSE IF Len(newPath) > MAX_PATH_LENGTH THEN Finish(p, "PathTooLong")
        ELSE Upd(p, [proc[p] EXCEPT !.pc = "rn_desc", !.newPath = newPath])
  /\ UNCHANGED <<storageUsed, storageLimit, folders, files, opsStarted, serial, budget, lastIndex>>

rn_desc(p) ==
  /\ proc[p].pc = "rn_desc"
  /\ Upd(p, [proc[p] EXCEPT !.pc = "rn_save",
                            !.descendants = getDescendants(proc[p].folder),
                            !.before = folders])
  /\ UNCHANGED <<storageUsed, storageLimit, folders, files, opsStarted, serial, budget, lastIndex>>

\* folder.save() with name and path modified
rn_save(p) ==
  /\ proc[p].pc = "rn_save"
  /\ LET g == proc[p].folderId
         doc == [folders[g] EXCEPT !.name = proc[p].name,
                                   !.path = proc[p].newPath]
     IN IF ~SchemaAdmits(doc) \/ ~NameValidator(doc.name)
          THEN /\ Finish(p, "ValidationError")
               /\ UNCHANGED folders
        ELSE IF UniqueIndexAdmits(doc, g)
          THEN /\ folders' = [folders EXCEPT ![g] = doc]
               /\ IF proc[p].descendants # {}
                    THEN Upd(p, [proc[p] EXCEPT !.pc = "rn_bulk"])
                    ELSE Finish(p, "ok")
          ELSE /\ Finish(p, "DuplicateKey")
               /\ UNCHANGED folders
  /\ UNCHANGED <<storageUsed, storageLimit, files, opsStarted, serial, budget, lastIndex>>

\* Folder.bulkWrite: path = desc.path.replace(oldPath, newPath)
rn_bulk(p) ==
  /\ proc[p].pc = "rn_bulk"
  /\ folders' = [g \in DOMAIN folders |->
                   IF g \in proc[p].descendants
                     THEN [folders[g] EXCEPT !.path =
                             replace(proc[p].before[g].path, proc[p].folder.path,
                                     proc[p].newPath)]
                     ELSE folders[g]]
  /\ Finish(p, "ok")
  /\ UNCHANGED <<storageUsed, storageLimit, files, opsStarted, serial, budget, lastIndex>>

\* -------------------------------------------------------------- moveFolder
\* (variant: only a path strictly below the folder's counts)
IsStrictDescendantPath(newParentPath, folderPath) ==
  StartsWith(newParentPath, folderPath \o <<"/">>)

\* newParent.path.startsWith(folder.path)
IsSelfOrDescendantPath(newParentPath, folderPath) ==
  StartsWith(newParentPath, folderPath)

\* Math.max(...descendants.map(d => d.depth)), or folder.depth without any
MaxDescendantDepth(doc, ids, docs) ==
  IF ids = {} THEN doc.depth
  ELSE CHOOSE m \in {docs[g].depth : g \in ids} :
         \A g \in ids : docs[g].depth <= m

moveFolder(p) ==
  /\ CanStart(p)
  /\ \E u \in Users, g \in DOMAIN folders, np \in DOMAIN folders :
       LET b == [Begin(p, "moveFolder", u, "mv_parent") EXCEPT
                   !.folderId = g, !.newParentId = np, !.pre = folders]
           folder == getFolder(u, g)
           fail(e) == Upd(p, [b EXCEPT !.pc = "idle", !.result = e])
       IN IF folder = NoDoc THEN fail("NotFound")
          ELSE IF IsRoot(folder) THEN fail("Forbidden")
          ELSE Upd(p, [b EXCEPT !.folder = folder])
  /\ opsStarted' = opsStarted + 1
  /\ UNCHANGED <<storageUsed, storageLimit, folders, files, serial, budget, lastIndex>>

mv_parent(p) ==
  /\ proc[p].pc = "mv_parent"
  /\ LET newParent == getFolder(proc[p].user, proc[p].newParentId)
     IN IF newParent = NoDoc THEN Finish(p, "NotFound")
        ELSE IF IsSelfOrDescendantPath(newParent.path, proc[p].folder.path)
          THEN Finish(p, "InvalidDestination")
        ELSE Upd(p, [proc[p] EXCEPT !.pc = "mv_desc", !.newParent = newParent,
                                     !.newDepth = newParent.depth + 1])
  /\ UNCHANGED <<storageUsed, storageLimit, folders, files, opsStarted, serial, budget, lastIndex>>

mv_desc(p) ==
  /\ proc[p].pc = "mv_desc"
  /\ LET descendants == getDescendants(proc[p].folder)
         maxDescendantDepth ==
           MaxDescendantDepth(proc[p].folder, descendants, folders)
         depthIncrease == proc[p].newDepth - proc[p].folder.depth
     IN IF maxDescendantDepth + depthIncrease > MAX_FOLDER_DEPTH
          THEN Finish(p, "DepthExceeded")
          ELSE Upd(p, [proc[p] EXCEPT !.pc = "mv_existing",
                                       !.descendants = descendants,
                                       !.before = folders,
                                       !.depthIncrease = depthIncrease])
  /\ UNCHANGED <<storageUsed, storageLimit, folders, files, opsStarted, serial, budget, lastIndex>>

mv_existing(p) ==
  /\ proc[p].pc = "mv_existing"
  /\ LET newPath == ChildPath(proc[p].newParent.path, proc[p].folder.name)
     IN IF Siblings(proc[p].newParentId, proc[p].folder.name,
                    proc[p].folderId) # {}
          THEN Finish(p, "Duplicate")
        ELSE IF Len(newPath) > MAX_PATH_LENGTH THEN Finish(p, "PathTooLong")
        ELSE Upd(p, [proc[p] EXCEPT !.pc = "mv_dec", !.newPath = newPath])
  /\ UNCHANGED <<storageUsed, storageLimit, folders, files, opsStarted, serial, budget, lastIndex>>

\* Folder.findByIdAndUpdate(folder.parentFolderId, {$inc: {folderCount: -1}})
mv_dec(p) ==
  /\ proc[p].pc = "mv_dec"
  /\ LET parent == proc[p].folder.parentFolderId
     IN folders' = IF parent \in DOMAIN folders
                     THEN [folders EXCEPT ![parent].folderCount = @ - 1]
                     ELSE folders
  /\ Upd(p, [proc[p] EXCEPT !.pc = "mv_inc"])
  /\ UNCHANGED <<storageUsed, storageLimit, files, opsStarted, serial, budget, lastIndex>>

mv_inc(p) ==
  /\ proc[p].pc = "mv_inc"
  /\ folders' = [folders EXCEPT ![proc[p].newParentId].folderCount = @ + 1]
  /\ Upd(p, [proc[p] EXCEPT !.pc = "mv_save"])
  /\ UNCHANGED <<storageUsed, storageLimit, files, opsStarted, serial, budget, lastIndex>>

\* folder.save() with parentFolderId, path and depth modified
mv_save(p) ==
  /\ proc[p].pc = "mv_save"
  /\ LET g == proc[p].folderId
         doc == [folders[g] EXCEPT !.parentFolderId = proc[p].newParentId,
                                   !.path = proc[p].newPath,
                                   !.depth = proc[p].newDepth]
     IN IF ~SchemaAdmits(doc)
          THEN /\ Finish(p, "ValidationError")
               /\ UNCHANGED folders
        ELSE IF UniqueIndexAdmits(doc, g)
          THEN /\ folders' = [folders EXCEPT ![g] = doc]
               /\ IF proc[p].descendants # {}
                    THEN Upd(p, [proc[p] EXCEPT !.pc = "mv_bulk"])
                    ELSE Finish(p, "ok")
          ELSE /\ Finish(p, "DuplicateKey")
               /\ UNCHANGED folders
  /\ UNCHANGED <<storageUsed, storageLimit, files, opsStarted, serial, budget, lastIndex>>

mv_bulk(p) ==
  /\ proc[p].pc = "mv_bulk"
  /\ folders' = [g \in DOMAIN folders |->
                   IF g \in proc[p].descendants
                     THEN [folders[g] EXCEPT
                             !.path = replace(proc[p].before[g].path,
                                              proc[p].folder.path, proc[p].newPath),
                             !.depth = proc[p].before[g].depth
                                         + proc[p].depthIncrease]
                     ELSE folders[g]]
  /\ Finish(p, "ok")
  /\ UNCHANGED <<storageUsed, storageLimit, files, opsStarted, serial, budget, lastIndex>>

\* ----------------------------------------------------------- restoreFolder
\* (variant: the filter does not ask for a deleted folder)
RestoreFilterAnyState(doc, u) == doc.ownerId = u

\* Folder.findOne({_id, ownerId, isDeleted: true})
RestoreFilter(doc, u) == doc.ownerId = u /\ doc.isDeleted

restoreFolder(p) ==
  /\ CanStart(p)
  /\ \E u \in Users, g \in DOMAIN folders :
       LET b == [Begin(p, "restoreFolder", u, "rs_parent") EXCEPT
                   !.folderId = g, !.pre = folders]
       IN IF RestoreFilter(folders[g], u)
            THEN Upd(p, [b EXCEPT !.folder = folders[g],
                                  !.pc = IF folders[g].parentFolderId # 0
                                           THEN "rs_parent" ELSE "rs_existing"])
            ELSE Upd(p, [b EXCEPT !.pc = "idle", !.result = "NotFound"])
  /\ opsStarted' = opsStarted + 1
  /\ UNCHANGED <<storageUsed, storageLimit, folders, files, serial, budget, lastIndex>>

rs_parent(p) ==
  /\ proc[p].pc = "rs_parent"
  /\ IF getFolder(proc[p].user, proc[p].folder.parentFolderId) = NoDoc
       THEN Finish(p, "ParentGone")
       ELSE Upd(p, [proc[p] EXCEPT !.pc = "rs_existing"])
  /\ UNCHANGED <<storageUsed, storageLimit, folders, files, opsStarted, serial, budget, lastIndex>>

rs_existing(p) ==
  /\ proc[p].pc = "rs_existing"
  /\ IF Siblings(proc[p].folder.parentFolderId, proc[p].folder.name, 0) # {}
       THEN Finish(p, "Duplicate")
       ELSE Upd(p, [proc[p] EXCEPT !.pc = "rs_save"])
  /\ UNCHANGED <<storageUsed, storageLimit, folders, files, opsStarted, serial, budget, lastIndex>>

\* folder.save() with isDeleted (and deletedAt) modified
rs_save(p) ==
  /\ proc[p].pc = "rs_save"
  /\ LET g == proc[p].folderId
         doc == [folders[g] EXCEPT !.isDeleted = FALSE, !.deletedAt = NullDate]
     IN IF UniqueIndexAdmits(doc, g)
          THEN /\ folders' = [folders EXCEPT ![g] = doc]
               /\ Finish(p, "ok")
          ELSE /\ Finish(p, "DuplicateKey")
               /\ UNCHANGED folders
  /\ UNCHANGED <<storageUsed, storageLimit, files, opsStarted, serial, budget, lastIndex>>

InitFolders ==
  [g \in FolderIds |->
     CASE g = 1 -> [ownerId |-> "u1", name |-> <<"H", "o", "m", "e">>,
                    parentFolderId |-> 0,
                    path |-> <<"/">>, depth |-> 0, isDeleted |-> FALSE, deletedAt |-> NullDate,
                    folderCount |-> 1]
       [] g = 2 -> [ownerId |-> "u1", name |-> <<"a">>, parentFolderId |-> 1,
                    path |-> <<"/", "a">>, depth |-> 1, isDeleted |-> FALSE, deletedAt |-> NullDate,
                    folderCount |-> 1]
       [] g = 3 -> [ownerId |-> "u1", name |-> <<"b">>, parentFolderId |-> 2,
                    path |-> <<"/", "a", "/", "b">>, depth |-> 2,
                    isDeleted |-> FALSE, deletedAt |-> NullDate,
                    folderCount |-> 0]]

Init ==
  /\ storageUsed = [u \in Users |-> 0]
  /\ storageLimit \in [Users -> Limits]
  /\ folders = InitFolders
  /\ files = <<>>
  /\ proc = [p \in Procs |-> IdleProc]
  /\ opsStarted = 0
  /\ serial = FALSE
  /\ budget = [ops |-> MaxOps, folders |-> MaxFolders,
               names |-> NameInputs]
  /\ lastIndex = 0

\* the same system with its requests served one at a time
SerialInit ==
  /\ storageUsed = [u \in Users |-> 0]
  /\ storageLimit \in [Users -> Limits]
  /\ folders = InitFolders
  /\ files = <<>>
  /\ proc = [p \in Procs |-> IdleProc]
  /\ opsStarted = 0
  /\ serial = TRUE
  /\ budget = [ops |-> MaxSerialOps, folders |-> MaxFolders,
               names |-> NameInputs]
  /\ lastIndex = 0

\* ------------------------------------------------------------ specification
Step(p) ==
  \/ createUploadIntent(p) \/ ci_folder(p) \/ ci_create(p) \/ ci_save(p)
  \/ confirmUpload(p) \/ cu_head(p) \/ cu_save(p) \/ cu_inc(p)
  \/ deleteFile(p) \/ df_dec(p) \/ df_save(p)
  \/ batchDeleteFiles(p) \/ bd_dec(p) \/ bd_save(p) \/ bd_rollback(p)
  \/ deleteFolder(p) \/ fo_can1(p) \/ fo_can2(p) \/ fo_desc(p)
  \/ fo_markFolders(p) \/ fo_find(p) \/ fo_markFiles(p) \/ fo_dec(p)
  \/ fo_single(p) \/ fo_count(p)

\* requests of any users running concurrently
Next == \E p \in Procs : Step(p)

Spec == Init /\ [][Next]_vars

SerialSpec == SerialInit /\ [][Next]_vars

\* ----------------------------------------------------------- updatePreview
\* previewWebhook calls updatePreview when status === "ready" && previewKey
\* holds, markPreviewFailed when status === "failed" or an error is given
updatePreview(p) ==
  /\ CanStart(p)
  /\ \E f \in FileIds, previewKey \in PreviewKeys :
       LET b == [Begin(p, "updatePreview", "u1", "up_save") EXCEPT
                   !.fileId = f, !.previewKey = previewKey]
       IN IF f <= Len(files)
            THEN Upd(p, [b EXCEPT !.file = files[f]])
            ELSE Upd(p, [b EXCEPT !.pc = "idle", !.result = "NotFound"])
  /\ opsStarted' = opsStarted + 1
  /\ UNCHANGED <<storageUsed, storageLimit, folders, files, serial, budget, lastIndex>>

\* file.save(): the paths whose value differs from the loaded one are written
SavePreview(stored, loaded, assigned) ==
  [stored EXCEPT
     !.previewKey = IF assigned.previewKey # loaded.previewKey
                      THEN assigned.previewKey ELSE @,
     !.previewStatus = IF assigned.previewStatus # loaded.previewStatus
                         THEN assigned.previewStatus ELSE @,
     !.hasPreview = IF assigned.hasPreview # loaded.hasPreview
                      THEN assigned.hasPreview ELSE @]

\* file.previewKey = previewKey; file.previewStatus = status;
\* file.hasPreview = status === "ready"; file.save()
up_save(p) ==
  /\ proc[p].pc = "up_save"
  /\ LET status == "ready"
         assigned == [proc[p].file EXCEPT !.previewKey = proc[p].previewKey,
                                           !.previewStatus = status,
                                           !.hasPreview = (status = "ready")]
     IN files' = [files EXCEPT ![proc[p].fileId] =
                    SavePreview(@, proc[p].file, assigned)]
  /\ Finish(p, "ok")
  /\ UNCHANGED <<storageUsed, storageLimit, folders, opsStarted, serial, budget, lastIndex>>

\* ------------------------------------------------------- markPreviewFailed
markPreviewFailed(p) ==
  /\ CanStart(p)
  /\ \E f \in FileIds :
       LET b == [Begin(p, "markPreviewFailed", "u1", "mp_save") EXCEPT
                   !.fileId = f]
       IN IF f <= Len(files)
            THEN Upd(p, [b EXCEPT !.file = files[f]])
            ELSE Upd(p, [b EXCEPT !.pc = "idle", !.result = "NotFound"])
  /\ opsStarted' = opsStarted + 1
  /\ UNCHANGED <<storageUsed, storageLimit, folders, files, serial, budget, lastIndex>>

\* file.previewStatus = "failed"; file.hasPreview = false; file.save()
mp_save(p) ==
  /\ proc[p].pc = "mp_save"
  /\ LET assigned == [proc[p].file EXCEPT !.previewStatus = "failed",
                                           !.hasPreview = FALSE]
     IN files' = [files EXCEPT ![proc[p].fileId] =
                    SavePreview(@, proc[p].file, assigned)]
  /\ Finish(p, "ok")
  /\ UNCHANGED <<storageUsed, storageLimit, folders, opsStarted, serial, budget, lastIndex>>

\* ---------------------------------------------------------------- moveFile
\* File.findOne({_id, ownerId, isDeleted: false}), else "File not found"
moveFile(p) ==
  /\ CanStart(p)
  /\ \E u \in Users, f \in FileIds, g \in DOMAIN folders :
       LET b == [Begin(p, "moveFile", u, "mf_folder") EXCEPT
                   !.fileId = f, !.folderId = g]
       IN IF f <= Len(files) /\ files[f].ownerId = u /\ ~files[f].isDeleted
            THEN Upd(p, [b EXCEPT !.file = files[f]])
            ELSE Upd(p, [b EXCEPT !.pc = "idle", !.result = "NotFound"])
  /\ opsStarted' = opsStarted + 1
  /\ UNCHANGED <<storageUsed, storageLimit, folders, files, serial, budget, lastIndex>>

\* Folder.findOne({_id: newFolderId, ownerId, isDeleted: false})
mf_folder(p) ==
  /\ proc[p].pc = "mf_folder"
  /\ LET folder == getFolder(proc[p].user, proc[p].folderId)
     IN IF folder = NoDoc THEN Finish(p, "InvalidDestination")
        ELSE Upd(p, [proc[p] EXCEPT !.pc = "mf_save", !.folder = folder])
  /\ UNCHANGED <<storageUsed, storageLimit, folders, files, opsStarted, serial, budget, lastIndex>>

\* file.save() with parentFolderId modified
mf_save(p) ==
  /\ proc[p].pc = "mf_save"
  /\ files' = [files EXCEPT ![proc[p].fileId].parentFolderId = proc[p].folderId]
  /\ Finish(p, "ok")
  /\ UNCHANGED <<storageUsed, storageLimit, folders, opsStarted, serial, budget, lastIndex>>

\* ------------------------------------------------- folder hierarchy alone
\* the tree of u1 with one confirmed file in /a/b; u2 has not signed in yet
FolderInit ==
  /\ storageUsed = [u \in Users |-> IF u = "u1" THEN 600 ELSE 0]
  /\ storageLimit = [u \in Users |-> 1000]
  /\ folders = InitFolders
  /\ files = <<[ownerId |-> "u1", parentFolderId |-> 3, size |-> 600,
                mimeType |-> "image/png", status |-> "active",
                isDeleted |-> FALSE, s3Key |-> TRUE,
                hasPreview |-> FALSE, previewStatus |-> "processing",
                previewKey |-> NullKey]>>
  /\ proc = [p \in Procs |-> IdleProc]
  /\ opsStarted = 0
  /\ serial = TRUE
  /\ budget = [ops |-> MaxFolderOps, folders |-> MaxFolders,
               names |-> NameInputs]
  /\ lastIndex = 0

FolderStep(p) ==
  \/ ensureRootFolder(p) \/ er_create(p)
  \/ createNewFolder(p) \/ cf_existing(p) \/ cf_create(p) \/ cf_count(p)
  \/ renameFolder(p) \/ rn_existing(p) \/ rn_desc(p) \/ rn_save(p) \/ rn_bulk(p)
  \/ moveFolder(p) \/ mv_parent(p) \/ mv_desc(p) \/ mv_existing(p)
  \/ mv_dec(p) \/ mv_inc(p) \/ mv_save(p) \/ mv_bulk(p)
  \/ deleteFolder(p) \/ fo_can1(p) \/ fo_can2(p) \/ fo_desc(p)
  \/ fo_markFolders(p) \/ fo_find(p) \/ fo_markFiles(p) \/ fo_dec(p)
  \/ fo_single(p) \/ fo_count(p)
  \/ restoreFolder(p) \/ rs_parent(p) \/ rs_existing(p) \/ rs_save(p)
  \/ getFolderPath(p) \/ gp_ancestors(p)

\* folder requests served one at a time
FolderNext == \E p \in Procs : FolderStep(p)

FolderSpec == FolderInit /\ [][FolderNext]_vars

\* ------------------------------------------------------------- two owners
\* the tree of u1, and u2 with a root and a folder /a of its own
OwnerFolders ==
  [g \in 1 .. 5 |->
     CASE g <= 3 -> InitFolders[g]
       [] g = 4 -> [ownerId |-> "u2", name |-> <<"H", "o", "m", "e">>,
                    parentFolderId |-> 0,
                    path |-> <<"/">>, depth |-> 0, isDeleted |-> FALSE, deletedAt |-> NullDate,
                    folderCount |-> 1]
       [] g = 5 -> [ownerId |-> "u2", name |-> <<"a">>, parentFolderId |-> 4,
                    path |-> <<"/", "a">>, depth |-> 1, isDeleted |-> FALSE, deletedAt |-> NullDate,
                    folderCount |-> 0]]

\* u1 has a confirmed file in /a/b, u2 an upload intent in its /a
OwnerInit ==
  /\ storageUsed = [u \in Users |-> IF u = "u1" THEN 600 ELSE 0]
  /\ storageLimit = [u \in Users |-> 1000]
  /\ folders = OwnerFolders
  /\ files = <<[ownerId |-> "u1", parentFolderId |-> 3, size |-> 600,
                mimeType |-> "image/png", status |-> "active",
                isDeleted |-> FALSE, s3Key |-> TRUE,
                hasPreview |-> FALSE, previewStatus |-> "processing",
                previewKey |-> NullKey],
               [ownerId |-> "u2", parentFolderId |-> 5, size |-> 600,
                mimeType |-> "image/png", status |-> "pending",
                isDeleted |-> FALSE, s3Key |-> TRUE,
                hasPreview |-> FALSE, previewStatus |-> "processing",
                previewKey |-> NullKey]>>
  /\ proc = [p \in Procs |-> IdleProc]
  /\ opsStarted = 0
  /\ serial = TRUE
  /\ budget = [ops |-> MaxOwnerOps, folders |-> Len(OwnerFolders) + 1,
               names |-> NameInputs]
  /\ lastIndex = 0

OwnerStep(p) ==
  \/ Step(p)
  \/ moveFile(p) \/ mf_folder(p) \/ mf_save(p)
  \/ createNewFolder(p) \/ cf_existing(p) \/ cf_create(p) \/ cf_count(p)
  \/ renameFolder(p) \/ rn_existing(p) \/ rn_desc(p) \/ rn_save(p) \/ rn_bulk(p)
  \/ moveFolder(p) \/ mv_parent(p) \/ mv_desc(p) \/ mv_existing(p)
  \/ mv_dec(p) \/ mv_inc(p) \/ mv_save(p) \/ mv_bulk(p)
  \/ restoreFolder(p) \/ rs_parent(p) \/ rs_existing(p) \/ rs_save(p)

\* the requests of both owners, on any folder or file id, one at a time
OwnerNext == \E p \in Procs : OwnerStep(p)

OwnerSpec == OwnerInit /\ [][OwnerNext]_vars

\* ------------------------------------------------------- preview webhook
\* upload intents and the calls of the preview webhook, running concurrently
PreviewInit ==
  /\ storageUsed = [u \in Users |-> 0]
  /\ storageLimit = [u \in Users |-> 1000]
  /\ folders = InitFolders
  /\ files = <<>>
  /\ proc = [p \in Procs |-> IdleProc]
  /\ opsStarted = 0
  /\ serial = FALSE
  /\ budget = [ops |-> MaxPreviewOps, folders |-> MaxFolders,
               names |-> NameInputs]
  /\ lastIndex = 0

PreviewStep(p) ==
  \/ createUploadIntent(p) \/ ci_folder(p) \/ ci_create(p) \/ ci_save(p)
  \/ updatePreview(p) \/ up_save(p)
  \/ markPreviewFailed(p) \/ mp_save(p)

PreviewNext == \E p \in Procs : PreviewStep(p)

PreviewSpec == PreviewInit /\ [][PreviewNext]_vars

\* ------------------------------------------------------ name validation
\* names handed to validateFolderName, with and without forbidden characters
ProbeNames ==
  {<<"a">>, <<"a", "b">>, <<"a", "<">>, <<"<", "a">>, <<"a", "b", "<">>,
   <<"a", ":">>, <<"<">>, <<"<", ">">>, <<"a", "|", "b">>, <<"?", " ">>,
   <<" ", "*">>, <<" ">>, <<".">>, <<"c", "o", "n">>}

\* one call of FolderService.validateFolderName
validateName(p) ==
  /\ CanStart(p)
  /\ \E raw \in ProbeNames :
       LET v == validateFolderName(raw, lastIndex)
       IN /\ Upd(p, [Begin(p, "validateFolderName", "u1", "idle") EXCEPT
                       !.raw = raw, !.name = v.name, !.result = v.error])
          /\ lastIndex' = v.lastIndex
  /\ opsStarted' = opsStarted + 1
  /\ UNCHANGED <<storageUsed, storageLimit, folders, files, serial, budget>>

NameInit ==
  /\ storageUsed = [u \in Users |-> 0]
  /\ storageLimit = [u \in Users |-> 1000]
  /\ folders = InitFolders
  /\ files = <<>>
  /\ proc = [p \in Procs |-> IdleProc]
  /\ opsStarted = 0
  /\ serial = TRUE
  /\ budget = [ops |-> MaxNameOps, folders |-> MaxFolders,
               names |-> NameInputs]
  /\ lastIndex = 0

\* calls of validateFolderName, one after another
NameNext == \E p \in Procs : validateName(p)

NameSpec == NameInit /\ [][NameNext]_vars

\* ------------------------------------------------------ deletes of files
\* u1 has two confirmed files, of 300 and 500 bytes, in /a/b
DeleteInit ==
  /\ storageUsed = [u \in Users |-> IF u = "u1" THEN 800 ELSE 0]
  /\ storageLimit = [u \in Users |-> 1000]
  /\ folders = InitFolders
  /\ files = [f \in 1 .. 2 |->
                [ownerId |-> "u1", parentFolderId |-> 3,
                 size |-> IF f = 1 THEN 300 ELSE 500,
                 mimeType |-> "image/png", status |-> "active",
                 isDeleted |-> FALSE, s3Key |-> TRUE,
                 hasPreview |-> FALSE, previewStatus |-> "processing",
                 previewKey |-> NullKey]]
  /\ proc = [p \in Procs |-> IdleProc]
  /\ opsStarted = 0
  /\ serial = FALSE
  /\ budget = [ops |-> MaxDeleteOps, folders |-> MaxFolders,
               names |-> NameInputs]
  /\ lastIndex = 0

DeleteStep(p) ==
  \/ deleteFile(p) \/ df_dec(p) \/ df_save(p)
  \/ batchDeleteFiles(p) \/ bd_dec(p) \/ bd_save(p) \/ bd_rollback(p)

\* deleteFile and batchDeleteFiles requests running concurrently
DeleteNext == \E p \in Procs : DeleteStep(p)

DeleteSpec == DeleteInit /\ [][DeleteNext]_vars

\* ------------------------------------------- the names of the tree again
\* dto.name / newName values equal to the names of the folders that exist
TreeNames == {<<"a">>, <<"b">>}

\* the tree of FolderInit, with clients that send these names
TreeInit ==
  /\ storageUsed = [u \in Users |-> IF u = "u1" THEN 600 ELSE 0]
  /\ storageLimit = [u \in Users |-> 1000]
  /\ folders = InitFolders
  /\ files = <<[ownerId |-> "u1", parentFolderId |-> 3, size |-> 600,
                mimeType |-> "image/png", status |-> "active",
                isDeleted |-> FALSE, s3Key |-> TRUE,
                hasPreview |-> FALSE, previewStatus |-> "processing",
                previewKey |-> NullKey]>>
  /\ proc = [p \in Procs |-> IdleProc]
  /\ opsStarted = 0
  /\ serial = TRUE
  /\ budget = [ops |-> MaxTreeOps, folders |-> MaxFolders,
               names |-> TreeNames]
  /\ lastIndex = 0

TreeSpec == TreeInit /\ [][FolderNext]_vars

\* ------------------------------------------- concurrent folder requests
\* the folders /a, /ab and /b of u1, made by createNewFolder under the root
RaceFolders ==
  [g \in 1 .. 4 |->
     IF g = 1 THEN [InitFolders[1] EXCEPT !.folderCount = 3]
     ELSE LET name == CASE g = 2 -> <<"a">> [] g = 3 -> <<"a", "b">>
                        [] OTHER -> <<"b">>
          IN [ownerId |-> "u1", name |-> name, parentFolderId |-> 1,
              path |-> <<"/">> \o name, depth |-> 1, isDeleted |-> FALSE,
              deletedAt |-> NullDate, folderCount |-> 0]]

\* dto.name values that differ in letter case only
CaseNames == {<<"D", "o", "c", "s">>, <<"d", "o", "c", "s">>}

RaceInit ==
  /\ storageUsed = [u \in Users |-> 0]
  /\ storageLimit = [u \in Users |-> 1000]
  /\ folders = RaceFolders
  /\ files = <<>>
  /\ proc = [p \in Procs |-> IdleProc]
  /\ opsStarted = 0
  /\ serial = FALSE
  /\ budget = [ops |-> MaxRaceOps, folders |-> Len(RaceFolders) + MaxRaceOps,
               names |-> CaseNames]
  /\ lastIndex = 0

RaceStep(p) ==
  \/ createNewFolder(p) \/ cf_existing(p) \/ cf_create(p) \/ cf_count(p)
  \/ moveFolder(p) \/ mv_parent(p) \/ mv_desc(p) \/ mv_existing(p)
  \/ mv_dec(p) \/ mv_inc(p) \/ mv_save(p) \/ mv_bulk(p)

\* createNewFolder and moveFolder requests running concurrently
RaceNext == \E p \in Procs : RaceStep(p)

RaceSpec == RaceInit /\ [][RaceNext]_vars

\* ------------------------------------------------ the deepest hierarchy
RECURSIVE Repeat(_, _)
Repeat(s, n) == IF n = 0 THEN <<>> ELSE s \o Repeat(s, n - 1)

\* the chain /a, /a/a, ... down to depth MAX_FOLDER_DEPTH, made by
\* createNewFolder under the root of u1
DeepFolders ==
  [g \in 1 .. (MAX_FOLDER_DEPTH + 1) |->
     IF g = 1 THEN InitFolders[1]
     ELSE [ownerId |-> "u1", name |-> <<"a">>, parentFolderId |-> g - 1,
           path |-> Repeat(<<"/", "a">>, g - 1), depth |-> g - 1,
           isDeleted |-> FALSE, deletedAt |-> NullDate,
           folderCount |-> IF g = MAX_FOLDER_DEPTH + 1 THEN 0 ELSE 1]]

DeepInit ==
  /\ storageUsed = [u \in Users |-> 0]
  /\ storageLimit = [u \in Users |-> 1000]
  /\ folders = DeepFolders
  /\ files = <<>>
  /\ proc = [p \in Procs |-> IdleProc]
  /\ opsStarted = 0
  /\ serial = TRUE
  /\ budget = [ops |-> MaxDeepOps, folders |-> MAX_FOLDER_DEPTH + 1 + MaxDeepOps,
               names |-> NameInputs]
  /\ lastIndex = 0

DeepStep(p) ==
  createNewFolder(p) \/ cf_existing(p) \/ cf_create(p) \/ cf_count(p)

\* createNewFolder requests served one at a time
DeepNext == \E p \in Procs : DeepStep(p)

DeepSpec == DeepInit /\ [][DeepNext]_vars

\* ------------------------------------------------------------------ claims
Done(p, op) == proc[p].pc = "idle" /\ proc[p].op = op

Ok(p, op) == Done(p, op) /\ proc[p].result = "ok"

\* process p performs this step
Took(p) == proc'[p] # proc[p]

\* the files that count toward the quota of u
ActiveLive(u) ==
  {f \in 1 .. Len(files) :
     files[f].ownerId = u /\ files[f].status = "active" /\ ~files[f].isDeleted}

\* C1: in every reachable state, under any interleaving of createUploadIntent,
\* confirmUpload, deleteFile, batchDeleteFiles and cascading deleteFolder, the
\* storageUsed of every owner is >= 0.
C1_StorageUsedNonNegative == \A u \in Users : storageUsed[u] >= 0

\* a reclaiming operation has brought storageUsed from a positive value to 0
C1_Witness ==
  \E p \in Procs :
    /\ proc[p].pc = "idle" /\ proc[p].result = "ok"
    /\ proc[p].op \in {"deleteFile", "batchDeleteFiles", "deleteFolder"}
    /\ proc[p].usedAtStart > 0
    /\ storageUsed[proc[p].user] = 0

\* C2 (as claimed): immediately after every successful confirmUpload the
\* owner's storageUsed does not exceed the owner's storageLimit.
C2_WithinLimitAfterConfirm ==
  \A p \in Procs :
    Ok(p, "confirmUpload") =>
      storageUsed[proc[p].user] <= storageLimit[proc[p].user]

\* C3 (as claimed): after any serial sequence of operations, an owner's
\* storageUsed equals the sum of size over that owner's files with
\* status = active and isDeleted = false.
C3_UsedEqualsActiveSum ==
  (\A p \in Procs : proc[p].pc = "idle") =>
    \A u \in Users : storageUsed[u] = SumSizes(ActiveLive(u), files)

\* C4: when deleteFile is called twice in succession on the same file id, the
\* first call (on a file that is there) succeeds and reduces storageUsed by the
\* file's size if it was active and by 0 if it was pending; the second call
\* fails with NotFound and leaves storageUsed and the file unchanged.
C4_First ==
  \A p \in Procs :
    (Done(p, "deleteFile") /\ proc[p].file # NoDoc) =>
      /\ proc[p].result = "ok"
      /\ storageUsed[proc[p].user] =
           proc[p].usedAtStart -
             (IF proc[p].file.status = "active" THEN proc[p].file.size ELSE 0)
      /\ files[proc[p].fileId].isDeleted

C4_Second ==
  \A p \in Procs :
    (Done(p, "deleteFile") /\ proc[p].again) =>
      /\ proc[p].result = "NotFound"
      /\ storageUsed[proc[p].user] = proc[p].usedAtStart

C4_SecondStep ==
  \A p \in Procs :
    (Took(p) /\ proc'[p].op = "deleteFile" /\ proc'[p].again) =>
      (files' = files /\ storageUsed' = storageUsed)

\* C4: the first of two successive deleteFile calls succeeds and reclaims the
\* size of an active file (0 for a pending one); the second fails with NotFound
\* and changes neither storageUsed nor any file.
C4_DeleteTwice == [](C4_First /\ C4_Second) /\ [][C4_SecondStep]_vars

\* the second of two successive deleteFile calls on an active file has failed
C4_Witness ==
  \E p \in Procs :
    /\ Done(p, "deleteFile") /\ proc[p].again
    /\ proc[p].result = "NotFound"
    /\ files[proc[p].fileId].status = "active"
    /\ files[proc[p].fileId].isDeleted
    /\ storageUsed[proc[p].user] = proc[p].usedAtStart

\* C5: every failing confirmUpload leaves the file's status, size and mimeType
\* unchanged (a pending file stays pending) and leaves storageUsed unchanged:
\* the step on which the call fails changes no file and no storageUsed, and a
\* call that has started to write does not fail.
ConfirmErrors ==
  {"InvalidOrAlreadyConfirmed", "NotFoundInStorage", "OwnershipMismatch",
   "EmptyUpload", "TooLarge", "MimeMismatch"}

C5_Step ==
  \A p \in Procs :
    /\ (Took(p) /\ proc'[p].op = "confirmUpload" /\ proc'[p].pc = "idle"
          /\ proc'[p].result # "ok") =>
         /\ proc'[p].result \in ConfirmErrors
         /\ proc[p].pc \notin {"cu_save", "cu_inc"}
         /\ files' = files
         /\ storageUsed' = storageUsed
    /\ (Took(p) /\ proc[p].pc = "cu_head") =>
         (files' = files /\ storageUsed' = storageUsed)

\* C5: no step on which a confirmUpload fails, and no step before its save,
\* changes a file or storageUsed.
C5_FailedConfirmChangesNothing == [][C5_Step]_vars

\* a confirmUpload has failed on an oversized object; the file is still pending
C5_Witness ==
  \E p \in Procs :
    /\ Done(p, "confirmUpload") /\ proc[p].result = "TooLarge"
    /\ files[proc[p].fileId].status = "pending"
    /\ files[proc[p].fileId].size = proc[p].file.size
    /\ storageUsed[proc[p].user] = proc[p].usedAtStart

\* C6: after a successful confirmUpload the file's size equals the size the
\* blob store reported and storageUsed has increased by exactly that size,
\* whatever size the client declared.
C6_VerifiedSizeCounted ==
  \A p \in Procs :
    Ok(p, "confirmUpload") =>
      /\ files[proc[p].fileId].size = proc[p].amount
      /\ storageUsed[proc[p].user] = proc[p].usedAtStart + proc[p].amount

\* a confirmUpload has succeeded on an object whose size is not the declared one
C6_Witness ==
  \E p \in Procs :
    /\ Ok(p, "confirmUpload")
    /\ proc[p].amount # proc[p].file.size
    /\ files[proc[p].fileId].size = proc[p].amount

\* C7: with storageLimit = 1000: from storageUsed = 0 a createUploadIntent for
\* size 600 is not rejected for quota, and a confirmUpload with blob size 600
\* sets storageUsed to 600.
C7_FirstSteps ==
  \A p \in Procs :
    /\ (Done(p, "createUploadIntent") /\ storageLimit[proc[p].user] = 1000
          /\ proc[p].size = 600 /\ proc[p].usedAtStart = 0) =>
         proc[p].result # "QuotaExceeded"
    /\ (Ok(p, "confirmUpload") /\ proc[p].usedAtStart = 0
          /\ proc[p].amount = 600) =>
         storageUsed[proc[p].user] = 600

\* a createUploadIntent for size 600 is finished, issued by an owner with
\* storageLimit = 1000 whose storageUsed was 600 from a confirmed 600-byte file
C7_SecondIntent(p) ==
  /\ Done(p, "createUploadIntent")
  /\ storageLimit[proc[p].user] = 1000
  /\ proc[p].size = 600
  /\ proc[p].usedAtStart = 600
  /\ \E f \in ActiveLive(proc[p].user) : files[f].size = 600

\* C7 (as claimed): ... and a further createUploadIntent for size 600 again
\* passes the quota check.
C7_SecondIntentPasses ==
  /\ C7_FirstSteps
  /\ \A p \in Procs : C7_SecondIntent(p) => proc[p].result # "QuotaExceeded"

\* C7 (amended): ... and a further createUploadIntent for size 600, issued
\* after that confirmUpload, is rejected with QuotaExceeded.
C7_SecondIntentRejected ==
  /\ C7_FirstSteps
  /\ \A p \in Procs : C7_SecondIntent(p) => proc[p].result = "QuotaExceeded"

\* the second intent of the example has been answered
C7_Witness ==
  \E p \in Procs :
    /\ C7_SecondIntent(p)
    /\ proc[p].result = "QuotaExceeded"
    /\ storageUsed[proc[p].user] = 600

\* C8: if deleteFile's guarded decrement fails because storageUsed is less than
\* the active file's size, deleteFile fails with QuotaInconsistency, the file
\* is left as it is (not marked deleted) and storageUsed is unchanged.
C8_Step ==
  \A p \in Procs :
    (Took(p) /\ proc[p].pc = "df_dec"
       /\ storageUsed[proc[p].user] < proc[p].amount) =>
      /\ proc'[p].pc = "idle"
      /\ proc'[p].result = "QuotaInconsistency"
      /\ files' = files
      /\ storageUsed' = storageUsed

\* C8: a deleteFile whose guarded decrement finds storageUsed < size ends with
\* QuotaInconsistency on that step, with files and storageUsed unchanged.
C8_GuardFailureAbandonsDelete == [][C8_Step]_vars

\* a deleteFile has failed on its guard; the active file is not marked deleted
C8_Witness ==
  \E p \in Procs :
    /\ Done(p, "deleteFile") /\ proc[p].result = "QuotaInconsistency"
    /\ files[proc[p].fileId].status = "active"
    /\ ~files[proc[p].fileId].isDeleted
    /\ storageUsed[proc[p].user] < proc[p].amount

\* the amount of the guarded decrement a process is about to issue
DecAmount(p) ==
  IF proc[p].pc = "bd_dec" THEN proc[p].results.totalSizeReclaimed
  ELSE proc[p].amount

\* C9 (as claimed): in deleteFile, batchDeleteFiles and cascading deleteFolder,
\* when the guarded decrement's precondition storageUsed >= amount does not
\* hold, the operation aborts with an error and marks nothing as deleted.
C9_Step ==
  \A p \in Procs :
    (Took(p) /\ proc[p].pc \in {"df_dec", "bd_dec", "fo_dec"}
       /\ ~(storageUsed[proc[p].user] >= DecAmount(p))) =>
      /\ proc'[p].pc = "idle"
      /\ proc'[p].result = "QuotaInconsistency"
      /\ files' = files
      /\ folders' = folders

\* C9 (as claimed): every guarded decrement whose precondition fails ends its
\* operation with an error, nothing being marked deleted.
C9_GuardFailureAborts == [][C9_Step]_vars

\* C10: for a batchDeleteFiles in which some soft-deletes fail: deleted + failed
\* is the number of loaded files, totalSizeReclaimed is the sum of the sizes
\* of the active files whose soft-delete succeeded, and storageUsed has
\* decreased by exactly totalSizeReclaimed.
C10_BatchAccounting ==
  \A p \in Procs :
    Ok(p, "batchDeleteFiles") =>
      LET r == proc[p].results
          stuck == proc[p].ids \ proc[p].rejected
      IN /\ r.deleted + r.failed = Cardinality(proc[p].ids)
         /\ r.failed = Cardinality(proc[p].rejected)
         /\ r.totalSizeReclaimed =
              SumSizes({f \in stuck : proc[p].snap[f].status = "active"},
                       proc[p].snap)
         /\ storageUsed[proc[p].user] = proc[p].usedAtStart - r.totalSizeReclaimed
         /\ \A f \in stuck : files[f].isDeleted
         /\ \A f \in proc[p].rejected : ~files[f].isDeleted

\* a batch over active files in which one soft-delete failed and one succeeded
C10_Witness ==
  \E p \in Procs :
    /\ Ok(p, "batchDeleteFiles")
    /\ proc[p].results.deleted >= 1
    /\ proc[p].results.failed >= 1
    /\ proc[p].results.totalSizeReclaimed > 0
    /\ \E f \in proc[p].rejected : proc[p].snap[f].status = "active"

\* C11: a file's status only ever moves from pending to active, and only by
\* the save of a confirmUpload: no step turns an active file back to pending,
\* no step sets the status failed, a new file is pending, and a confirmUpload
\* that arrives for an already active file fails at once with
\* InvalidOrAlreadyConfirmed, changing no file and no storageUsed.
C11_Step ==
  /\ \A f \in 1 .. Len(files') :
       IF f <= Len(files)
         THEN /\ files'[f].status \in {"pending", "active"}
              /\ files[f].status = "active" => files'[f].status = "active"
              /\ files'[f].status # files[f].status =>
                   \E p \in Procs :
                     /\ proc[p].op = "confirmUpload" /\ proc[p].pc = "cu_save"
                     /\ proc[p].fileId = f /\ Took(p)
         ELSE files'[f].status = "pending"
  /\ \A p \in Procs :
       (/\ proc[p].pc = "idle" /\ Took(p) /\ proc'[p].op = "confirmUpload"
        /\ proc'[p].fileId <= Len(files)
        /\ files[proc'[p].fileId].status = "active") =>
         /\ proc'[p].pc = "idle"
         /\ proc'[p].result = "InvalidOrAlreadyConfirmed"
         /\ files' = files
         /\ storageUsed' = storageUsed

\* C11: every step keeps to the status machine pending -> active.
C11_StatusOnlyForward == [][C11_Step]_vars

\* the owner's confirmUpload on a file that is already active has failed
C11_Witness ==
  \E p \in Procs :
    /\ Done(p, "confirmUpload")
    /\ proc[p].result = "InvalidOrAlreadyConfirmed"
    /\ proc[p].fileId <= Len(files)
    /\ files[proc[p].fileId].ownerId = proc[p].user
    /\ files[proc[p].fileId].status = "active"
    /\ storageUsed[proc[p].user] = proc[p].usedAtStart
    /\ storageUsed[proc[p].user] > 0

\* no request is running
Quiet == \A p \in Procs : proc[p].pc = "idle"

Live == {g \in DOMAIN folders : ~folders[g].isDeleted}

\* C12: after any serial sequence of createFolder, renameFolder, moveFolder,
\* deleteFolder and restoreFolder calls, no two non-deleted folders with the
\* same ownerId and the same parentFolderId have names that are equal when
\* compared case-insensitively.
C12_SiblingNamesUnique ==
  Quiet =>
    \A g, h \in Live :
      (/\ g # h
       /\ folders[g].ownerId = folders[h].ownerId
       /\ folders[g].parentFolderId = folders[h].parentFolderId) =>
        toLowerCase(folders[g].name) # toLowerCase(folders[h].name)

\* a request was refused for a name that differs from a live sibling's name
\* in letter case only
C12_Witness ==
  \E p \in Procs :
    /\ proc[p].pc = "idle" /\ proc[p].result = "Duplicate"
    /\ proc[p].op \in {"createNewFolder", "renameFolder"}
    /\ \E g \in Live :
         /\ folders[g].name # proc[p].name
         /\ toLowerCase(folders[g].name) = toLowerCase(proc[p].name)
         /\ folders[g].parentFolderId =
              (IF proc[p].op = "createNewFolder" THEN proc[p].newParentId
               ELSE proc[p].folder.parentFolderId)

\* C13 (as claimed): after any sequence of createFolder, renameFolder,
\* moveFolder, deleteFolder and restoreFolder calls, every non-deleted non-root
\* folder's path equals its parent folder's path followed by "/" and its own
\* name (or "/" + name when the parent is the root).
C13_PathIsParentPathAndName ==
  Quiet =>
    \A g \in Live :
      folders[g].parentFolderId # 0 =>
        LET parent == folders[folders[g].parentFolderId]
        IN folders[g].path =
             (IF parent.path = <<"/">> THEN <<"/">> \o folders[g].name
              ELSE parent.path \o <<"/">> \o folders[g].name)

\* C14 (as claimed): after any sequence of folder operations, every non-root,
\* non-deleted folder's parentFolderId references a folder of the same owner
\* that is itself non-deleted.
C14_ParentIsLive ==
  Quiet =>
    \A g \in Live :
      folders[g].parentFolderId # 0 =>
        /\ folders[g].parentFolderId \in Live
        /\ folders[folders[g].parentFolderId].ownerId = folders[g].ownerId

\* C15 (as claimed): after any serial sequence of createFolder, renameFolder,
\* moveFolder, deleteFolder and restoreFolder calls, every folder's depth
\* equals the number of non-empty segments of its path, and no folder has
\* depth greater than 20.
C15_DepthIsSegmentCount ==
  Quiet =>
    \A g \in DOMAIN folders :
      /\ folders[g].depth = SegmentCount(folders[g].path)
      /\ folders[g].depth <= 20

\* C16 (as claimed): a folder's folderCount equals the number of non-deleted
\* folders whose parentFolderId is that folder, after any serial sequence of
\* createFolder, moveFolder, deleteFolder (with or without cascade) and
\* restoreFolder calls; in particular it is never negative.
C16_FolderCountIsLiveChildren ==
  Quiet =>
    \A g \in Live :
      /\ folders[g].folderCount =
           Cardinality({h \in Live : folders[h].parentFolderId = g})
      /\ folders[g].folderCount >= 0

\* the non-deleted folders of u with path "/"
RootFolders(u) ==
  {g \in DOMAIN folders :
     folders[g].ownerId = u /\ ~folders[g].isDeleted /\ folders[g].path = <<"/">>}

C17_OneRoot ==
  /\ \A u \in Users :
       RootFolders(u) # {} =>
         /\ Cardinality(RootFolders(u)) = 1
         /\ \A g \in RootFolders(u) :
              folders[g].parentFolderId = 0 /\ folders[g].depth = 0
  /\ \A p \in Procs :
       Ok(p, "ensureRootFolder") => RootFolders(proc[p].user) = {proc[p].folderId}

C17_Step ==
  /\ \A u \in Users : RootFolders(u) # {} => RootFolders(u)' = RootFolders(u)
  /\ \A p \in Procs :
       (/\ proc[p].pc = "idle" /\ Took(p) /\ proc'[p].op = "ensureRootFolder"
        /\ RootFolders(proc'[p].user) # {}) =>
         /\ proc'[p].pc = "idle" /\ proc'[p].result = "ok"
         /\ proc'[p].folderId \in RootFolders(proc'[p].user)
         /\ folders' = folders

\* C17: once ensureRoot has completed for an owner, every later state has
\* exactly one non-deleted folder of that owner with path "/", parentFolderId
\* null and depth 0, and every later serial ensureRoot call returns that same
\* folder without creating another.
C17_EnsureRootIdempotent == []C17_OneRoot /\ [][C17_Step]_vars

\* ensureRoot has created the root of u2, and a second ensureRoot of u2 has
\* returned it
C17_Witness ==
  \E p \in Procs :
    /\ Ok(p, "ensureRootFolder") /\ proc[p].again
    /\ proc[p].user = "u2"
    /\ RootFolders("u2") = {proc[p].folderId}
    /\ Len(folders) = 4

\* process p starts a request `op` in this step
Starts(p, op) == proc[p].pc = "idle" /\ Took(p) /\ proc'[p].op = op

C18_Step ==
  \A p \in Procs :
    \A op \in {"renameFolder", "moveFolder", "deleteFolder"} :
      (/\ Starts(p, op)
       /\ proc'[p].folderId \in DOMAIN folders
       /\ folders[proc'[p].folderId].ownerId = proc'[p].user
       /\ ~folders[proc'[p].folderId].isDeleted
       /\ folders[proc'[p].folderId].path = <<"/">>) =>
        /\ proc'[p].pc = "idle"
        /\ proc'[p].result = "Forbidden"
        /\ folders' = folders
        /\ files' = files
        /\ storageUsed' = storageUsed

\* C18: renameFolder, moveFolder and deleteFolder applied to the root folder
\* (path "/") each fail with Forbidden and leave every folder, every file and
\* storageUsed unchanged.
C18_RootIsProtected == [][C18_Step]_vars

\* a request on the owner's root has been refused, in a tree that other
\* requests have changed before
C18_Witness ==
  \E p \in Procs :
    /\ proc[p].pc = "idle" /\ proc[p].result = "Forbidden"
    /\ proc[p].op \in {"renameFolder", "moveFolder", "deleteFolder"}
    /\ folders[proc[p].folderId].path = <<"/">>
    /\ folders[proc[p].folderId].ownerId = proc[p].user
    /\ ~folders[proc[p].folderId].isDeleted
    /\ folders # InitFolders

\* C19: a folder created by createFolder under a non-deleted owned parent has
\* depth = depth(parent) + 1 and path = path(parent) + "/" + name, with
\* path = "/" + name when the parent is the root; createFolder (with a valid
\* name) fails with DepthExceeded when the parent's depth is already 20.
C19_CreatedUnderParent ==
  \A p \in Procs :
    /\ Ok(p, "createNewFolder") =>
         LET child == folders[proc[p].folderId]
             parent == folders[proc[p].newParentId]
         IN /\ parent.ownerId = proc[p].user /\ ~parent.isDeleted
            /\ child.parentFolderId = proc[p].newParentId
            /\ child.name = proc[p].name
            /\ child.depth = parent.depth + 1
            /\ child.path =
                 (IF parent.path = <<"/">> THEN <<"/">> \o child.name
                  ELSE parent.path \o <<"/">> \o child.name)
    /\ (/\ Done(p, "createNewFolder") /\ proc[p].name # <<>>
        /\ folders[proc[p].newParentId].ownerId = proc[p].user
        /\ ~folders[proc[p].newParentId].isDeleted
        /\ folders[proc[p].newParentId].depth = 20) =>
         /\ proc[p].result = "DepthExceeded"
         /\ proc[p].folderId = 0

\* a folder has been created under the root and one under it, and a
\* createFolder under the folder of depth 20 has been refused
C19_Witness ==
  \E p \in Procs :
    /\ Done(p, "createNewFolder") /\ proc[p].result = "DepthExceeded"
    /\ folders[proc[p].newParentId].depth = 20
    /\ \E g \in DOMAIN folders :
         /\ g > MAX_FOLDER_DEPTH + 1
         /\ folders[g].parentFolderId = 1
         /\ folders[g].path = <<"/">> \o folders[g].name
         /\ folders[g].depth = 1

\* the folders above g along the parentFolderId links of docs
RECURSIVE AncestorIds(_, _, _)
AncestorIds(g, docs, fuel) ==
  IF fuel = 0 \/ docs[g].parentFolderId \notin DOMAIN docs THEN {}
  ELSE {docs[g].parentFolderId}
         \cup AncestorIds(docs[g].parentFolderId, docs, fuel - 1)

\* the non-deleted folders below f in docs
DescendantIds(f, docs) ==
  {d \in DOMAIN docs : ~docs[d].isDeleted /\ f \in AncestorIds(d, docs, Len(docs))}

\* C20 (as claimed): after a successful renameFolder(f, newName), for every
\* descendant d of f the depth of d is unchanged and the path of d is its old
\* path with f's old path replaced, as a prefix, by f's new path; f's own
\* path differs from its old path only in the last segment.
C20_RenameRewritesPrefix ==
  \A p \in Procs :
    (Ok(p, "renameFolder") /\ proc[p].before # <<>>) =>
      LET f == proc[p].folderId
          old == proc[p].before
          oldPath == old[f].path
          newPath == folders[f].path
          cut == lastIndexOf(oldPath, <<"/">>)
      IN /\ SubSeq(newPath, 1, cut) = SubSeq(oldPath, 1, cut)
         /\ SubSeq(newPath, cut + 1, Len(newPath)) = proc[p].name
         /\ "/" \notin {proc[p].name[i] : i \in 1 .. Len(proc[p].name)}
         /\ \A d \in DescendantIds(f, old) :
              /\ folders[d].depth = old[d].depth
              /\ SubSeq(old[d].path, 1, Len(oldPath)) = oldPath
              /\ folders[d].path =
                   newPath \o SubSeq(old[d].path, Len(oldPath) + 1, Len(old[d].path))

\* ------------------------------------------------------------------- C21
\* the folder documents as they were when request p started
Pre(p) == proc[p].pre

\* document g of docs as getFolder(u, g) finds it, or NoDoc
FoundIn(docs, u, g) ==
  IF g \in DOMAIN docs /\ docs[g].ownerId = u /\ ~docs[g].isDeleted
    THEN docs[g] ELSE NoDoc

\* C21: moveFolder(f, newParent) on a movable folder f fails with
\* InvalidDestination, changing no folder, whenever newParent's path equals
\* f's path or starts with f's path followed by "/".
C21_MoveIntoOwnSubtreeRefused ==
  \A p \in Procs :
    (Done(p, "moveFolder") /\ proc[p].folder # NoDoc) =>
      LET f == proc[p].folder
          np == FoundIn(Pre(p), proc[p].user, proc[p].newParentId)
      IN (np # NoDoc /\ (np.path = f.path
                          \/ StartsWith(np.path, f.path \o <<"/">>))) =>
           /\ proc[p].result = "InvalidDestination"
           /\ folders = Pre(p)

\* moving /a into /a/b, a folder below it, was refused
C21_Witness ==
  \E p \in Procs :
    /\ Done(p, "moveFolder") /\ proc[p].result = "InvalidDestination"
    /\ proc[p].folderId = 2 /\ proc[p].newParentId = 3
    /\ folders[3].path = folders[2].path \o <<"/", "b">>

\* ------------------------------------------------------------------- C22
\* the folders below f along the parentFolderId links, deleted or not
Below(f, docs) ==
  {d \in DOMAIN docs : f \in AncestorIds(d, docs, Len(docs))}

\* the folders that the cascade of request p soft-deleted: f and those below
Cascaded(p) ==
  {proc[p].folderId}
    \cup (Below(proc[p].folderId, folders) \cap proc[p].folderIds)

C22_FoldersDeleted ==
  \A p \in Procs :
    (Ok(p, "deleteFolder") /\ proc[p].cascade) =>
      \A g \in {proc[p].folderId} \cup Below(proc[p].folderId, folders) :
        folders[g].isDeleted

C22_FilesDeleted ==
  \A p \in Procs :
    (Ok(p, "deleteFolder") /\ proc[p].cascade) =>
      \A i \in 1 .. Len(files) :
        files[i].parentFolderId \in Cascaded(p) => files[i].isDeleted

C22_StorageReclaimed ==
  \A p \in Procs :
    (Ok(p, "deleteFolder") /\ proc[p].cascade) =>
      storageUsed[proc[p].user] =
        proc[p].usedAtStart - SumSizes(proc[p].ids, files)

\* C22 (as claimed): after deleteFolder with cascade = true succeeds on f,
\* f, every folder below f and every file that was non-deleted, whatever its
\* status, in f or in a folder below it are soft-deleted, and storageUsed has
\* decreased by the sum of the sizes of the active files among them.
C22_CascadeDeletesAll ==
  C22_FoldersDeleted /\ C22_FilesDeleted /\ C22_StorageReclaimed

\* ------------------------------------------------------------------- C23
ForeignFolder(u, g) == g \in DOMAIN folders /\ folders[g].ownerId # u

ForeignFile(u, f) == f \in 1 .. Len(files) /\ files[f].ownerId # u

\* the finished request of p named a folder or a file of another owner
CrossOwner(p) ==
  LET u == proc[p].user
      op == proc[p].op
  IN \/ /\ op \in {"renameFolder", "deleteFolder", "restoreFolder"}
        /\ ForeignFolder(u, proc[p].folderId)
     \/ /\ op = "moveFolder"
        /\ ForeignFolder(u, proc[p].folderId) \/ ForeignFolder(u, proc[p].newParentId)
     \/ op = "createNewFolder" /\ ForeignFolder(u, proc[p].newParentId)
     \/ op = "createUploadIntent" /\ ForeignFolder(u, proc[p].parentFolderId)
     \/ op \in {"confirmUpload", "deleteFile"} /\ ForeignFile(u, proc[p].fileId)
     \/ /\ op = "moveFile"
        /\ ForeignFile(u, proc[p].fileId) \/ ForeignFolder(u, proc[p].folderId)

\* the documents a request holds are its own user's
OwnDocs(r) ==
  /\ r.folder # NoDoc => r.folder.ownerId = r.user
  /\ r.newParent # NoDoc => r.newParent.ownerId = r.user
  /\ r.file # NoDoc => r.file.ownerId = r.user

\* a step of a request of one owner finds, changes and adds documents of that
\* owner only, and leaves every other owner's storageUsed alone
C23_Step ==
  \A p \in Procs :
    Took(p) =>
      LET u == proc'[p].user
      IN /\ \A g \in DOMAIN folders :
              folders[g].ownerId # u => folders'[g] = folders[g]
         /\ \A g \in DOMAIN folders' \ DOMAIN folders : folders'[g].ownerId = u
         /\ \A f \in DOMAIN files :
              files[f].ownerId # u => files'[f] = files[f]
         /\ \A f \in DOMAIN files' \ DOMAIN files : files'[f].ownerId = u
         /\ \A v \in Users \ {u} : storageUsed'[v] = storageUsed[v]
         /\ OwnDocs(proc'[p])
         /\ \A g \in proc'[p].descendants \cup proc'[p].folderIds :
              folders[g].ownerId = u
         /\ \A f \in proc'[p].ids : files[f].ownerId = u

\* C23 (as claimed): no operation invoked by one owner reads as found,
\* modifies, deletes or restores a folder or file of a different owner, or
\* changes a different owner's storageUsed; every such cross-owner call
\* fails with NotFound.
C23_CrossOwnerNotFound ==
  /\ [](\A p \in Procs :
          (proc[p].pc = "idle" /\ CrossOwner(p)) => proc[p].result = "NotFound")
  /\ [][C23_Step]_vars

\* the outcomes of a call that names a folder or file of another owner
Refusals(op) ==
  CASE op = "createNewFolder" -> {"InvalidName", "NotFound"}
    [] op = "moveFolder" -> {"Forbidden", "NotFound"}
    [] op = "createUploadIntent" -> {"MissingFields", "QuotaExceeded", "InvalidFolder"}
    [] op = "confirmUpload" -> {"InvalidOrAlreadyConfirmed"}
    [] op = "moveFile" -> {"NotFound", "InvalidDestination"}
    [] OTHER -> {"NotFound"}

\* C23 (amended): no operation invoked by one owner reads as found, modifies,
\* deletes or restores a folder or file of a different owner, or changes a
\* different owner's storageUsed; a call naming such a folder or file fails
\* as it does for an id that does not exist (NotFound from the folder
\* operations, deleteFile and moveFile, InvalidOrAlreadyConfirmed from
\* confirmUpload, InvalidFolder from createUploadIntent, InvalidDestination
\* from moveFile's destination) unless a check of the caller's own input
\* fails first; batchDeleteFiles skips such ids and fails with NoValidFiles
\* when no other id is left.
C23_CrossOwnerRefused ==
  /\ [](\A p \in Procs :
          /\ (proc[p].pc = "idle" /\ CrossOwner(p)) =>
               proc[p].result \in Refusals(proc[p].op)
          /\ (Done(p, "batchDeleteFiles")
                /\ proc[p].fileIds # {}
                /\ \A f \in proc[p].fileIds :
                     f > Len(files) \/ ForeignFile(proc[p].user, f)) =>
               proc[p].result = "NoValidFiles")
  /\ [][C23_Step]_vars

\* u1 tried to confirm the upload intent of u2, or u2 to delete the file of
\* u1: refused, and both files are as they were
C23_Witness ==
  \E p \in Procs :
    /\ proc[p].pc = "idle" /\ CrossOwner(p)
    /\ \/ proc[p].op = "confirmUpload" /\ proc[p].user = "u1" /\ proc[p].fileId = 2
       \/ proc[p].op = "deleteFile" /\ proc[p].user = "u2" /\ proc[p].fileId = 1
    /\ proc[p].result \in {"InvalidOrAlreadyConfirmed", "NotFound"}
    /\ files = <<[ownerId |-> "u1", parentFolderId |-> 3, size |-> 600,
                  mimeType |-> "image/png", status |-> "active",
                  isDeleted |-> FALSE, s3Key |-> TRUE,
                  hasPreview |-> FALSE, previewStatus |-> "processing",
                  previewKey |-> NullKey],
                 [ownerId |-> "u2", parentFolderId |-> 5, size |-> 600,
                  mimeType |-> "image/png", status |-> "pending",
                  isDeleted |-> FALSE, s3Key |-> TRUE,
                  hasPreview |-> FALSE, previewStatus |-> "processing",
                  previewKey |-> NullKey]>>

\* ------------------------------------------------------------------- C24
\* C24 (as claimed): in every reachable state, after any createUploadIntent,
\* updatePreview and markPreviewFailed calls, a file has hasPreview = true if
\* and only if its previewStatus is ready and its previewKey is set.
C24_HasPreviewIffReady ==
  \A f \in 1 .. Len(files) :
    files[f].hasPreview <=>
      (files[f].previewStatus = "ready" /\ files[f].previewKey # NullKey)

\* ------------------------------------------------------------------- C25
\* C25 (as claimed): getFolderPath for a folder at any depth returns the
\* ancestor chain in root-to-self order: the first element is the owner's
\* root folder, each element is the parent of the next, and the last element
\* is the folder itself.
C25_PathIsChainFromRoot ==
  \A p \in Procs :
    Ok(p, "getFolderPath") =>
      LET chain == proc[p].chain
      IN /\ chain # <<>>
         /\ chain[1] \in RootFolders(proc[p].user)
         /\ \A i \in 1 .. (Len(chain) - 1) :
              folders[chain[i + 1]].parentFolderId = chain[i]
         /\ chain[Len(chain)] = proc[p].folderId

\* ------------------------------------------------------------------- C26
\* what the claim lets restoreFolder(u, g) answer on the folders docs
RestoreOutcome(docs, u, g) ==
  LET deleted == docs[g].ownerId = u /\ docs[g].isDeleted
      parentLive == FoundIn(docs, u, docs[g].parentFolderId) # NoDoc
      taken == \E s \in DOMAIN docs :
                 /\ ~docs[s].isDeleted
                 /\ docs[s].parentFolderId = docs[g].parentFolderId
                 /\ toLowerCase(docs[s].name) = toLowerCase(docs[g].name)
  IN IF ~deleted THEN "NotFound"
     ELSE IF ~parentLive THEN "ParentGone"
     ELSE IF taken THEN "Duplicate"
     ELSE "ok"

\* C26: restoreFolder succeeds only on a folder that is currently
\* soft-deleted, whose parent is a non-deleted folder of the same owner, and
\* for which no non-deleted sibling has a case-insensitively equal name;
\* otherwise it fails (NotFound, ParentGone or Duplicate respectively) and
\* changes nothing; on success it sets isDeleted = false and deletedAt = null.
C26_RestoreChecks ==
  \A p \in Procs :
    Done(p, "restoreFolder") =>
      LET g == proc[p].folderId
      IN /\ proc[p].result = RestoreOutcome(Pre(p), proc[p].user, g)
         /\ proc[p].result # "ok" => folders = Pre(p)
         /\ proc[p].result = "ok" =>
              folders = [Pre(p) EXCEPT ![g].isDeleted = FALSE,
                                       ![g].deletedAt = NullDate]

\* a soft-deleted folder was restored under its live parent
C26_Witness ==
  \E p \in Procs :
    /\ Ok(p, "restoreFolder")
    /\ Pre(p)[proc[p].folderId].isDeleted
    /\ Pre(p)[proc[p].folderId].deletedAt = Now
    /\ ~folders[proc[p].folderId].isDeleted

\* ------------------------------------------------------------------- C27
\* C27 (as claimed): validateName is pure: for any sequence of calls, its
\* outcome for a given input is the one of a first call on that input, and a
\* name containing a forbidden character is rejected on every call.
C27_ValidateNameIsPure ==
  \A p \in Procs :
    Done(p, "validateFolderName") =>
      LET first == validateFolderName(proc[p].raw, 0)
      IN /\ proc[p].result = first.error
         /\ proc[p].name = first.name
         /\ (\E i \in 1 .. Len(proc[p].raw) : proc[p].raw[i] \in FORBIDDEN_CHARS)
              => proc[p].result = "InvalidName"

\* ------------------------------------------------------------------- C28
\* the largest depth among the folders ids of docs, or `own` without any
Deepest(ids, docs, own) ==
  IF ids = {} THEN own
  ELSE CHOOSE m \in {docs[d].depth : d \in ids} : \A d \in ids : docs[d].depth <= m

\* request p is a moveFolder that got past the checks on the folder and on
\* the new parent
MoveChecked(p) ==
  /\ Done(p, "moveFolder")
  /\ LET f == FoundIn(Pre(p), proc[p].user, proc[p].folderId)
         np == FoundIn(Pre(p), proc[p].user, proc[p].newParentId)
     IN /\ f # NoDoc /\ np # NoDoc
        /\ f.path # <<"/">>
        /\ ~StartsWith(np.path, f.path)

\* C28 (as claimed): moveFolder fails with DepthExceeded, changing nothing,
\* exactly when the depth of the deepest existing descendant (or of the folder
\* itself if it has none) plus (newParent.depth + 1 - folder.depth) exceeds
\* 20; on success the folder's parentFolderId is the new parent and the folder
\* and every descendant have their path prefix replaced by the new path and
\* their depth increased by that delta.
C28_MoveRewritesSubtree ==
  \A p \in Procs :
    MoveChecked(p) =>
      LET g == proc[p].folderId
          old == Pre(p)
          np == old[proc[p].newParentId]
          delta == np.depth + 1 - old[g].depth
          below == DescendantIds(g, old)
          oldPath == old[g].path
          newPath == ChildPath(np.path, old[g].name)
      IN /\ proc[p].result = "DepthExceeded" <=>
              Deepest(below, old, old[g].depth) + delta > MAX_FOLDER_DEPTH
         /\ proc[p].result = "DepthExceeded" => folders = old
         /\ proc[p].result = "ok" =>
              /\ folders[g].parentFolderId = proc[p].newParentId
              /\ folders[g].path = newPath
              /\ folders[g].depth = old[g].depth + delta
              /\ \A d \in below :
                   /\ StartsWith(old[d].path, oldPath)
                   /\ folders[d].path =
                        newPath \o SubSeq(old[d].path, Len(oldPath) + 1,
                                          Len(old[d].path))
                   /\ folders[d].depth = old[d].depth + delta

\* ------------------------------------------------------------------- C29
\* a non-deleted file, of any status, lies in folder g or in a folder below it
HoldsFiles(g) ==
  \E i \in 1 .. Len(files) :
    /\ ~files[i].isDeleted
    /\ files[i].parentFolderId \in {g} \cup DescendantIds(g, folders)

\* a step of a deleteFolder request with force = false on a folder that
\* holds files changes nothing, and the request ends with NotEmpty
C29_Step ==
  \A p \in Procs :
    (/\ Took(p)
     /\ proc'[p].op = "deleteFolder" /\ ~proc'[p].force
     /\ proc'[p].folder # NoDoc
     /\ HoldsFiles(proc'[p].folderId)) =>
      /\ UNCHANGED <<folders, files, storageUsed>>
      /\ proc'[p].pc = "idle" => proc'[p].result = "NotEmpty"

\* C29 (as claimed): deleteFolder with force = false fails with NotEmpty
\* whenever any non-deleted file (of any status) exists in the folder or in
\* any of its descendant folders, and in that case no folder, file,
\* folderCount or storageUsed is changed.
C29_NotEmptyRefused == [][C29_Step]_vars

\* ------------------------------------------------------------------- C30
\* C30: renameFolder with a new name that equals the current name
\* case-insensitively (after trimming) is a no-op: it returns the current
\* folder and leaves the folder's name and path and every descendant's path
\* unchanged.
C30_SameNameRenameIsNoOp ==
  \A p \in Procs :
    (/\ Done(p, "renameFolder")
     /\ proc[p].folder # NoDoc
     /\ toLowerCase(proc[p].name) = toLowerCase(proc[p].folder.name)) =>
      /\ proc[p].result = "ok"
      /\ proc[p].folder = folders[proc[p].folderId]
      /\ folders = Pre(p)

\* /a, which has a folder below it, was renamed to "A"
C30_Witness ==
  \E p \in Procs :
    /\ Ok(p, "renameFolder")
    /\ proc[p].folderId = 2 /\ proc[p].folder # NoDoc
    /\ proc[p].folder.name = <<"a">> /\ proc[p].name = <<"A">>
    /\ DescendantIds(2, folders) # {}

\* ------------------------------------------------------------------- C31
\* the files that the finished delete request of p loaded as non-deleted
Touched(p) ==
  IF proc[p].op = "deleteFile"
    THEN (IF proc[p].file = NoDoc THEN {} ELSE {proc[p].fileId})
  ELSE IF proc[p].op = "batchDeleteFiles" THEN proc[p].ids
  ELSE {}

Larger(a, b) == IF a >= b THEN a ELSE b

\* C31 (as claimed): for any interleaving of two concurrent deleteFile calls
\* (or a deleteFile and a batchDeleteFiles call) on the same active file, once
\* both have finished storageUsed has been decreased by the file's size at
\* most once: it is not below its value at the start of the calls less the
\* sizes of the files the two calls loaded, each counted once.
C31_ReclaimedAtMostOnce ==
  \A p, q \in Procs :
    (/\ p # q /\ proc[p].pc = "idle" /\ proc[q].pc = "idle"
     /\ proc[p].op = "deleteFile"
     /\ proc[q].op \in {"deleteFile", "batchDeleteFiles"}
     /\ proc[p].user = proc[q].user
     /\ Touched(p) \cap Touched(q) # {}) =>
      storageUsed[proc[p].user] >=
        Larger(proc[p].usedAtStart, proc[q].usedAtStart)
          - SumSizes(Touched(p) \cup Touched(q), files)

\* ------------------------------------------------------------------- C32
\* the confirmUpload of p loaded the pending file and its blob passed all
\* the checks
PassedChecks(p) ==
  /\ Done(p, "confirmUpload")
  /\ proc[p].file # NoDoc
  /\ proc[p].result \notin ConfirmErrors

\* C32 (as claimed): for any interleaving of two concurrent confirmUpload
\* calls on the same pending file whose blob passes all checks, storageUsed
\* is increased by the verified size exactly once and at most one of the
\* calls succeeds.
C32_ConfirmedOnce ==
  \A p, q \in Procs :
    (/\ p # q /\ PassedChecks(p) /\ PassedChecks(q)
     /\ proc[p].fileId = proc[q].fileId
     /\ proc[p].usedAtStart = proc[q].usedAtStart) =>
      /\ ~(proc[p].result = "ok" /\ proc[q].result = "ok")
      /\ storageUsed[proc[p].user] =
           proc[p].usedAtStart + files[proc[p].fileId].size

\* ------------------------------------------------------------------- C33
\* C33 (as claimed): for any interleaving of two concurrent createFolder
\* calls by the same owner under the same parent whose names differ only in
\* letter case, at most one folder is created, so sibling names stay unique
\* case-insensitively.
C33_OneOfTwoCreated ==
  \A p, q \in Procs :
    (/\ p # q /\ Done(p, "createNewFolder") /\ Done(q, "createNewFolder")
     /\ proc[p].user = proc[q].user
     /\ proc[p].newParentId = proc[q].newParentId
     /\ proc[p].name # proc[q].name
     /\ toLowerCase(proc[p].name) = toLowerCase(proc[q].name)) =>
      /\ ~(proc[p].result = "ok" /\ proc[q].result = "ok")
      /\ \A g, h \in Live :
           (/\ g # h
            /\ folders[g].parentFolderId = proc[p].newParentId
            /\ folders[h].parentFolderId = proc[p].newParentId) =>
             toLowerCase(folders[g].name) # toLowerCase(folders[h].name)

\* ------------------------------------------------------------------- C35
\* C35 (as claimed): for any interleaving of two concurrent moveFolder calls
\* by the same owner, after both have finished no non-deleted folder is its
\* own ancestor through parentFolderId links.
C35_NoCycleAfterMoves ==
  (/\ Quiet
   /\ \A p \in Procs : proc[p].op = "moveFolder"
   /\ proc["p1"].user = proc["p2"].user) =>
    \A g \in Live : g \notin AncestorIds(g, folders, Len(folders))

\* ------------------------------------------------------------------- C34
\* p and q are finished deleteFile calls of one owner on two different
\* active files, started when storageUsed was at least the sum of the sizes;
\* they are the only requests so far, so the second started while the first
\* was running
TwoDeletes(p, q) ==
  /\ p # q /\ Done(p, "deleteFile") /\ Done(q, "deleteFile")
  /\ opsStarted = 2
  /\ proc[p].user = proc[q].user
  /\ proc[p].file # NoDoc /\ proc[q].file # NoDoc
  /\ proc[p].fileId # proc[q].fileId
  /\ proc[p].file.status = "active" /\ proc[q].file.status = "active"
  /\ proc[p].usedAtStart >= proc[p].file.size + proc[q].file.size
  /\ proc[q].usedAtStart >= proc[p].file.size + proc[q].file.size

\* C34: for any interleaving of concurrent deleteFile calls on two different
\* active files of the same owner (with storageUsed at least the sum of their
\* sizes), once both have finished both have succeeded and storageUsed has
\* decreased by exactly the sum of the two sizes.
C34_BothDecrementsApplied ==
  \A p, q \in Procs :
    TwoDeletes(p, q) =>
      /\ proc[p].result = "ok" /\ proc[q].result = "ok"
      /\ files[proc[p].fileId].isDeleted /\ files[proc[q].fileId].isDeleted
      /\ storageUsed[proc[p].user] =
           Larger(proc[p].usedAtStart, proc[q].usedAtStart)
             - (proc[p].file.size + proc[q].file.size)

\* the two calls overlapped: both started from storageUsed = 800 and it is 0
C34_Witness ==
  \E p, q \in Procs :
    /\ TwoDeletes(p, q)
    /\ proc[p].usedAtStart = 800 /\ proc[q].usedAtStart = 800
    /\ storageUsed[proc[p].user] = 0

\* ------------------------------------------------------------------- C36
\* a step leaves the status of every soft-deleted file as it is, and a step
\* of a request on a file that was soft-deleted when the step began leaves
\* storageUsed as it is; a confirmUpload that arrives for a soft-deleted file
\* fails
C36_Step ==
  /\ \A f \in 1 .. Len(files) :
       files[f].isDeleted => files'[f].status = files[f].status
  /\ \A p \in Procs :
       (/\ Took(p)
        /\ proc'[p].op \in {"confirmUpload", "deleteFile"}
        /\ proc'[p].fileId \in 1 .. Len(files)
        /\ files[proc'[p].fileId].isDeleted) =>
         /\ storageUsed' = storageUsed
         /\ proc'[p].pc = "idle" => proc'[p].result # "ok"

\* C36 (as claimed): once a file is soft-deleted its status never changes and
\* it never again causes storageUsed to change: confirmUpload on a file that
\* was soft-deleted while pending fails and does not increment storageUsed.
C36_DeletedFileIsFinal == [][C36_Step]_vars

\* ------------------------------------------------------------------- C37
\* C37 (as claimed): moveFolder does not fail with InvalidDestination when
\* the destination is neither the folder itself nor one of its descendants:
\* a destination outside the subtree whose path merely begins with the same
\* characters is accepted when the other checks pass.
C37_StrangerIsAccepted ==
  \A p \in Procs :
    (/\ Done(p, "moveFolder")
     /\ opsStarted = 1
     /\ proc[p].folder # NoDoc
     /\ getFolder(proc[p].user, proc[p].newParentId) # NoDoc
     /\ proc[p].newParentId # proc[p].folderId
     /\ proc[p].newParentId \notin DescendantIds(proc[p].folderId, folders)) =>
      proc[p].result # "InvalidDestination"

\* ------------------------------------------------------------------- C38
\* the folders that the handlers select as descendants of f, by path prefix,
\* are the non-deleted folders below f along the parentFolderId links
C38_SelectedAreBelow ==
  Quiet =>
    \A f \in Live : getDescendants(folders[f]) = DescendantIds(f, folders)

\* a finished renameFolder or moveFolder on f has changed the path, depth or
\* isDeleted of f and of folders below f only
C38_Frame ==
  \A p \in Procs :
    (/\ proc[p].pc = "idle" /\ proc[p].op \in {"renameFolder", "moveFolder"}
     /\ Pre(p) # <<>>) =>
      \A g \in DOMAIN Pre(p) :
        (\/ folders[g].path # Pre(p)[g].path
         \/ folders[g].depth # Pre(p)[g].depth
         \/ folders[g].isDeleted # Pre(p)[g].isDeleted) =>
          g \in {proc[p].folderId} \cup Below(proc[p].folderId, Pre(p))

\* C38 (as claimed): renameFolder, moveFolder and cascading deleteFolder on
\* folder f change the path, depth or isDeleted of f and of folders reachable
\* from f through parentFolderId links only: after any sequence of folder
\* operations, the set of folders selected as f's descendants by path prefix
\* equals the set of non-deleted folders that descend from f through
\* parentFolderId.
C38_DescendantsByPathAreByParent == C38_SelectedAreBelow /\ C38_Frame

\* ------------------------------------------------------------------- C39
\* C39 (as claimed): after any sequence of createFolder, renameFolder,
\* moveFolder, deleteFolder and restoreFolder calls, no two non-deleted
\* folders of the same owner have the same path.
C39_PathsUnique ==
  Quiet =>
    \A g, h \in Live :
      (g # h /\ folders[g].ownerId = folders[h].ownerId) =>
        folders[g].path # folders[h].path

\* ------------------------------------------------------------------- C40
\* the storageReclaimed that the deleteFolder of p returns
StorageReclaimed(p) == proc[p].amount

\* every step of a deleteFolder request leaves the storageUsed of its owner
\* alone, but for the decrement, which lowers it by the storageReclaimed
\* that the request goes on to return
C40_Step ==
  \A p \in Procs :
    (Took(p) /\ proc'[p].op = "deleteFolder") =>
      /\ proc[p].pc = "fo_dec" =>
           /\ proc[p].cascade
           /\ storageUsed'[proc[p].user] =
                storageUsed[proc[p].user] - StorageReclaimed(p)
      /\ proc[p].pc # "fo_dec" => storageUsed' = storageUsed
      /\ (proc'[p].pc = "idle" /\ proc'[p].result = "ok") =>
           /\ StorageReclaimed(p)' = StorageReclaimed(p)
           /\ (proc[p].pc # "fo_dec" /\ proc[p].ids = {}) => StorageReclaimed(p) = 0
           /\ ~proc[p].cascade => StorageReclaimed(p) = 0

\* C40 (as claimed): the storageReclaimed value returned by a successful
\* deleteFolder equals the amount by which the owner's storageUsed actually
\* decreased during that call (0 without cascade), in every state from which
\* deleteFolder can be called.
C40_ReclaimedIsDecrease == [][C40_Step]_vars

====
